---------------------------- MODULE Spec2Model ----------------------------
(***************************************************************************)
(* A model of fix_markdown_lint.py: the seven line-scanning passes, the    *)
(* per-file driver fix_markdown_file, the configuration loader and the     *)
(* sequential / parallel run of main.                                      *)
(*                                                                         *)
(* Text representation.  A character is a one-character string, or a token *)
(* naming a character a TLA+ string cannot hold; a line is a sequence of   *)
(* characters and a document is the non-empty sequence of                  *)
(* lines that content.split('\n') yields; '\n'.join(lines) is its inverse  *)
(* because no pass ever puts a newline inside a line.  Positions inside a  *)
(* line are Python's (0-based) wherever the source computes with them.     *)
(***************************************************************************)
EXTENDS Integers, Sequences, FiniteSets, TLC

VARIABLES
    content,        \* the document being transformed (sequence of lines)
    pass_input,     \* the document as the pass that ran last received it
    original,       \* the document as it was read at the start of the run
    config,         \* the configuration record handed to the passes
    pc,             \* position of the process the specification runs
    runs,           \* runs of the pipeline over the document, the current one included
    ol,             \* ListRenumberer loop state: i, list_counters, in_code_block, fixed_lines
    cfgfile,        \* what the lint-config file holds (load_markdownlint_config)
    cli,            \* command line: line_length override, dry_run, parallel, fixes
    files,          \* the file system: per file its bytes, readable, writable, quota
    results,        \* per entry of files_to_process: its fix_markdown_file call
    fixed_count,    \* main's counter of files reported fixed
    cursor          \* main's position in its loop over the files / futures

vars == <<content, pass_input, original, config, pc, runs, ol, cfgfile, cli, files,
          results, fixed_count, cursor>>

---------------------------------------------------------------------------
(* Python string primitives used by the passes.                            *)

\* The characters str.isspace() is true for, which are the characters that
\* strip(), lstrip(), rstrip() and split() remove and that \s matches in a
\* str pattern; the newline is left out because no line holds one.  A
\* character a TLA+ string cannot hold is written as the token "U+" followed
\* by its code point.
WhitespaceChars ==
    {"\t", "U+000B", "\f", "\r", "U+001C", "U+001D", "U+001E", "U+001F",
     " ", "U+0085", "U+00A0", "U+1680", "U+2000", "U+2001", "U+2002", "U+2003",
     "U+2004", "U+2005", "U+2006", "U+2007", "U+2008", "U+2009", "U+200A", "U+2028",
     "U+2029", "U+202F", "U+205F", "U+3000"}

IsSpace(c) == c \in WhitespaceChars

\* The decimal digits \d matches in a str pattern and int() parses: one row
\* per script, the digits 0 to 9 in order.
DecimalDigits ==
    <<
      <<"0", "1", "2", "3", "4", "5", "6", "7", "8", "9">>,
      <<"U+0660", "U+0661", "U+0662", "U+0663", "U+0664", "U+0665", "U+0666", "U+0667", "U+0668", "U+0669">>,
      <<"U+06F0", "U+06F1", "U+06F2", "U+06F3", "U+06F4", "U+06F5", "U+06F6", "U+06F7", "U+06F8", "U+06F9">>,
      <<"U+07C0", "U+07C1", "U+07C2", "U+07C3", "U+07C4", "U+07C5", "U+07C6", "U+07C7", "U+07C8", "U+07C9">>,
      <<"U+0966", "U+0967", "U+0968", "U+0969", "U+096A", "U+096B", "U+096C", "U+096D", "U+096E", "U+096F">>,
      <<"U+09E6", "U+09E7", "U+09E8", "U+09E9", "U+09EA", "U+09EB", "U+09EC", "U+09ED", "U+09EE", "U+09EF">>,
      <<"U+0A66", "U+0A67", "U+0A68", "U+0A69", "U+0A6A", "U+0A6B", "U+0A6C", "U+0A6D", "U+0A6E", "U+0A6F">>,
      <<"U+0AE6", "U+0AE7", "U+0AE8", "U+0AE9", "U+0AEA", "U+0AEB", "U+0AEC", "U+0AED", "U+0AEE", "U+0AEF">>,
      <<"U+0B66", "U+0B67", "U+0B68", "U+0B69", "U+0B6A", "U+0B6B", "U+0B6C", "U+0B6D", "U+0B6E", "U+0B6F">>,
      <<"U+0BE6", "U+0BE7", "U+0BE8", "U+0BE9", "U+0BEA", "U+0BEB", "U+0BEC", "U+0BED", "U+0BEE", "U+0BEF">>,
      <<"U+0C66", "U+0C67", "U+0C68", "U+0C69", "U+0C6A", "U+0C6B", "U+0C6C", "U+0C6D", "U+0C6E", "U+0C6F">>,
      <<"U+0CE6", "U+0CE7", "U+0CE8", "U+0CE9", "U+0CEA", "U+0CEB", "U+0CEC", "U+0CED", "U+0CEE", "U+0CEF">>,
      <<"U+0D66", "U+0D67", "U+0D68", "U+0D69", "U+0D6A", "U+0D6B", "U+0D6C", "U+0D6D", "U+0D6E", "U+0D6F">>,
      <<"U+0DE6", "U+0DE7", "U+0DE8", "U+0DE9", "U+0DEA", "U+0DEB", "U+0DEC", "U+0DED", "U+0DEE", "U+0DEF">>,
      <<"U+0E50", "U+0E51", "U+0E52", "U+0E53", "U+0E54", "U+0E55", "U+0E56", "U+0E57", "U+0E58", "U+0E59">>,
      <<"U+0ED0", "U+0ED1", "U+0ED2", "U+0ED3", "U+0ED4", "U+0ED5", "U+0ED6", "U+0ED7", "U+0ED8", "U+0ED9">>,
      <<"U+0F20", "U+0F21", "U+0F22", "U+0F23", "U+0F24", "U+0F25", "U+0F26", "U+0F27", "U+0F28", "U+0F29">>,
      <<"U+1040", "U+1041", "U+1042", "U+1043", "U+1044", "U+1045", "U+1046", "U+1047", "U+1048", "U+1049">>,
      <<"U+1090", "U+1091", "U+1092", "U+1093", "U+1094", "U+1095", "U+1096", "U+1097", "U+1098", "U+1099">>,
      <<"U+17E0", "U+17E1", "U+17E2", "U+17E3", "U+17E4", "U+17E5", "U+17E6", "U+17E7", "U+17E8", "U+17E9">>,
      <<"U+1810", "U+1811", "U+1812", "U+1813", "U+1814", "U+1815", "U+1816", "U+1817", "U+1818", "U+1819">>,
      <<"U+1946", "U+1947", "U+1948", "U+1949", "U+194A", "U+194B", "U+194C", "U+194D", "U+194E", "U+194F">>,
      <<"U+19D0", "U+19D1", "U+19D2", "U+19D3", "U+19D4", "U+19D5", "U+19D6", "U+19D7", "U+19D8", "U+19D9">>,
      <<"U+1A80", "U+1A81", "U+1A82", "U+1A83", "U+1A84", "U+1A85", "U+1A86", "U+1A87", "U+1A88", "U+1A89">>,
      <<"U+1A90", "U+1A91", "U+1A92", "U+1A93", "U+1A94", "U+1A95", "U+1A96", "U+1A97", "U+1A98", "U+1A99">>,
      <<"U+1B50", "U+1B51", "U+1B52", "U+1B53", "U+1B54", "U+1B55", "U+1B56", "U+1B57", "U+1B58", "U+1B59">>,
      <<"U+1BB0", "U+1BB1", "U+1BB2", "U+1BB3", "U+1BB4", "U+1BB5", "U+1BB6", "U+1BB7", "U+1BB8", "U+1BB9">>,
      <<"U+1C40", "U+1C41", "U+1C42", "U+1C43", "U+1C44", "U+1C45", "U+1C46", "U+1C47", "U+1C48", "U+1C49">>,
      <<"U+1C50", "U+1C51", "U+1C52", "U+1C53", "U+1C54", "U+1C55", "U+1C56", "U+1C57", "U+1C58", "U+1C59">>,
      <<"U+A620", "U+A621", "U+A622", "U+A623", "U+A624", "U+A625", "U+A626", "U+A627", "U+A628", "U+A629">>,
      <<"U+A8D0", "U+A8D1", "U+A8D2", "U+A8D3", "U+A8D4", "U+A8D5", "U+A8D6", "U+A8D7", "U+A8D8", "U+A8D9">>,
      <<"U+A900", "U+A901", "U+A902", "U+A903", "U+A904", "U+A905", "U+A906", "U+A907", "U+A908", "U+A909">>,
      <<"U+A9D0", "U+A9D1", "U+A9D2", "U+A9D3", "U+A9D4", "U+A9D5", "U+A9D6", "U+A9D7", "U+A9D8", "U+A9D9">>,
      <<"U+A9F0", "U+A9F1", "U+A9F2", "U+A9F3", "U+A9F4", "U+A9F5", "U+A9F6", "U+A9F7", "U+A9F8", "U+A9F9">>,
      <<"U+AA50", "U+AA51", "U+AA52", "U+AA53", "U+AA54", "U+AA55", "U+AA56", "U+AA57", "U+AA58", "U+AA59">>,
      <<"U+ABF0", "U+ABF1", "U+ABF2", "U+ABF3", "U+ABF4", "U+ABF5", "U+ABF6", "U+ABF7", "U+ABF8", "U+ABF9">>,
      <<"U+FF10", "U+FF11", "U+FF12", "U+FF13", "U+FF14", "U+FF15", "U+FF16", "U+FF17", "U+FF18", "U+FF19">>,
      <<"U+104A0", "U+104A1", "U+104A2", "U+104A3", "U+104A4", "U+104A5", "U+104A6", "U+104A7", "U+104A8", "U+104A9">>,
      <<"U+10D30", "U+10D31", "U+10D32", "U+10D33", "U+10D34", "U+10D35", "U+10D36", "U+10D37", "U+10D38", "U+10D39">>,
      <<"U+11066", "U+11067", "U+11068", "U+11069", "U+1106A", "U+1106B", "U+1106C", "U+1106D", "U+1106E", "U+1106F">>,
      <<"U+110F0", "U+110F1", "U+110F2", "U+110F3", "U+110F4", "U+110F5", "U+110F6", "U+110F7", "U+110F8", "U+110F9">>,
      <<"U+11136", "U+11137", "U+11138", "U+11139", "U+1113A", "U+1113B", "U+1113C", "U+1113D", "U+1113E", "U+1113F">>,
      <<"U+111D0", "U+111D1", "U+111D2", "U+111D3", "U+111D4", "U+111D5", "U+111D6", "U+111D7", "U+111D8", "U+111D9">>,
      <<"U+112F0", "U+112F1", "U+112F2", "U+112F3", "U+112F4", "U+112F5", "U+112F6", "U+112F7", "U+112F8", "U+112F9">>,
      <<"U+11450", "U+11451", "U+11452", "U+11453", "U+11454", "U+11455", "U+11456", "U+11457", "U+11458", "U+11459">>,
      <<"U+114D0", "U+114D1", "U+114D2", "U+114D3", "U+114D4", "U+114D5", "U+114D6", "U+114D7", "U+114D8", "U+114D9">>,
      <<"U+11650", "U+11651", "U+11652", "U+11653", "U+11654", "U+11655", "U+11656", "U+11657", "U+11658", "U+11659">>,
      <<"U+116C0", "U+116C1", "U+116C2", "U+116C3", "U+116C4", "U+116C5", "U+116C6", "U+116C7", "U+116C8", "U+116C9">>,
      <<"U+11730", "U+11731", "U+11732", "U+11733", "U+11734", "U+11735", "U+11736", "U+11737", "U+11738", "U+11739">>,
      <<"U+118E0", "U+118E1", "U+118E2", "U+118E3", "U+118E4", "U+118E5", "U+118E6", "U+118E7", "U+118E8", "U+118E9">>,
      <<"U+11950", "U+11951", "U+11952", "U+11953", "U+11954", "U+11955", "U+11956", "U+11957", "U+11958", "U+11959">>,
      <<"U+11C50", "U+11C51", "U+11C52", "U+11C53", "U+11C54", "U+11C55", "U+11C56", "U+11C57", "U+11C58", "U+11C59">>,
      <<"U+11D50", "U+11D51", "U+11D52", "U+11D53", "U+11D54", "U+11D55", "U+11D56", "U+11D57", "U+11D58", "U+11D59">>,
      <<"U+11DA0", "U+11DA1", "U+11DA2", "U+11DA3", "U+11DA4", "U+11DA5", "U+11DA6", "U+11DA7", "U+11DA8", "U+11DA9">>,
      <<"U+16A60", "U+16A61", "U+16A62", "U+16A63", "U+16A64", "U+16A65", "U+16A66", "U+16A67", "U+16A68", "U+16A69">>,
      <<"U+16AC0", "U+16AC1", "U+16AC2", "U+16AC3", "U+16AC4", "U+16AC5", "U+16AC6", "U+16AC7", "U+16AC8", "U+16AC9">>,
      <<"U+16B50", "U+16B51", "U+16B52", "U+16B53", "U+16B54", "U+16B55", "U+16B56", "U+16B57", "U+16B58", "U+16B59">>,
      <<"U+1D7CE", "U+1D7CF", "U+1D7D0", "U+1D7D1", "U+1D7D2", "U+1D7D3", "U+1D7D4", "U+1D7D5", "U+1D7D6", "U+1D7D7">>,
      <<"U+1D7D8", "U+1D7D9", "U+1D7DA", "U+1D7DB", "U+1D7DC", "U+1D7DD", "U+1D7DE", "U+1D7DF", "U+1D7E0", "U+1D7E1">>,
      <<"U+1D7E2", "U+1D7E3", "U+1D7E4", "U+1D7E5", "U+1D7E6", "U+1D7E7", "U+1D7E8", "U+1D7E9", "U+1D7EA", "U+1D7EB">>,
      <<"U+1D7EC", "U+1D7ED", "U+1D7EE", "U+1D7EF", "U+1D7F0", "U+1D7F1", "U+1D7F2", "U+1D7F3", "U+1D7F4", "U+1D7F5">>,
      <<"U+1D7F6", "U+1D7F7", "U+1D7F8", "U+1D7F9", "U+1D7FA", "U+1D7FB", "U+1D7FC", "U+1D7FD", "U+1D7FE", "U+1D7FF">>,
      <<"U+1E140", "U+1E141", "U+1E142", "U+1E143", "U+1E144", "U+1E145", "U+1E146", "U+1E147", "U+1E148", "U+1E149">>,
      <<"U+1E2F0", "U+1E2F1", "U+1E2F2", "U+1E2F3", "U+1E2F4", "U+1E2F5", "U+1E2F6", "U+1E2F7", "U+1E2F8", "U+1E2F9">>,
      <<"U+1E950", "U+1E951", "U+1E952", "U+1E953", "U+1E954", "U+1E955", "U+1E956", "U+1E957", "U+1E958", "U+1E959">>,
      <<"U+1FBF0", "U+1FBF1", "U+1FBF2", "U+1FBF3", "U+1FBF4", "U+1FBF5", "U+1FBF6", "U+1FBF7", "U+1FBF8", "U+1FBF9">>
    >>

DigitChars == UNION {{DecimalDigits[r][v] : v \in 1..10} : r \in 1..Len(DecimalDigits)}

IsDigit(c) == c \in DigitChars

\* The value int() gives the digit c.
DigitValue(c) ==
    (CHOOSE v \in 1..10 : \E r \in 1..Len(DecimalDigits) : DecimalDigits[r][v] = c) - 1

\* len(s) - len(s.lstrip())
LeadingSpaces(s) ==
    IF \A i \in 1..Len(s) : IsSpace(s[i]) THEN Len(s)
    ELSE (CHOOSE i \in 1..Len(s) :
             ~IsSpace(s[i]) /\ \A j \in 1..(i - 1) : IsSpace(s[j])) - 1

\* len(s) - len(s.rstrip())
TrailingSpaces(s) ==
    IF \A i \in 1..Len(s) : IsSpace(s[i]) THEN Len(s)
    ELSE Len(s) - (CHOOSE i \in 1..Len(s) :
             ~IsSpace(s[i]) /\ \A j \in (i + 1)..Len(s) : IsSpace(s[j]))

lstrip(s) == SubSeq(s, LeadingSpaces(s) + 1, Len(s))

rstrip(s) == SubSeq(s, 1, Len(s) - TrailingSpaces(s))

strip(s) == lstrip(rstrip(s))

\* s.strip() == ''
IsBlank(s) == \A i \in 1..Len(s) : IsSpace(s[i])

\* s[k:k+len(p)] == p, for a 0-based position k
MatchAt(s, p, k) ==
    /\ k >= 0
    /\ k + Len(p) <= Len(s)
    /\ \A i \in 1..Len(p) : s[k + i] = p[i]

startswith(s, p) == MatchAt(s, p, 0)

\* p in s
contains(s, p) == \E k \in 0..(Len(s) - Len(p)) : MatchAt(s, p, k)

\* c * n
Repeat(c, n) == IF n <= 0 THEN << >> ELSE [i \in 1..n |-> c]

\* A slice bound as Python clamps it: a negative bound counts from the end.
SliceIndex(n, e) ==
    IF e < 0 THEN (IF n + e < 0 THEN 0 ELSE n + e)
    ELSE IF e > n THEN n ELSE e

\* s[:e]
SliceTo(s, e) == SubSeq(s, 1, SliceIndex(Len(s), e))

\* s[b:]
SliceFrom(s, b) == SubSeq(s, SliceIndex(Len(s), b) + 1, Len(s))

\* s.rfind(p, 0, e): the highest position of p lying wholly inside s[0:e], or -1
rfind(s, p, e) ==
    LET hi == SliceIndex(Len(s), e)
        hits == {k \in 0..(hi - Len(p)) : MatchAt(s, p, k)}
    IN  IF hits = {} THEN -1
        ELSE CHOOSE k \in hits : \A m \in hits : m <= k

\* s.split(): the maximal runs of non-whitespace characters, in order
RECURSIVE split(_)
split(s) ==
    LET t == lstrip(s)
    IN  IF t = << >> THEN << >>
        ELSE LET n == IF \E i \in 1..Len(t) : IsSpace(t[i])
                      THEN (CHOOSE i \in 1..Len(t) :
                               IsSpace(t[i]) /\ \A j \in 1..(i - 1) : ~IsSpace(t[j])) - 1
                      ELSE Len(t)
             IN  <<SubSeq(t, 1, n)>> \o split(SubSeq(t, n + 1, Len(t)))

\* c.upper() for one character, as a sequence because the upper case of some
\* characters is longer than one character: the ASCII letters, and every
\* other character whose upper case holds a character of 'SELECT ' or of
\* 'CREATE TABLE', the two texts the source looks for in next_line.upper().
\* Any other character stays itself: its upper case holds none of the
\* characters looked for.
UpperChar(c) ==
    LET lower == <<"a", "b", "c", "d", "e", "f", "g", "h", "i", "j", "k", "l", "m",
                   "n", "o", "p", "q", "r", "s", "t", "u", "v", "w", "x", "y", "z">>
        upper == <<"A", "B", "C", "D", "E", "F", "G", "H", "I", "J", "K", "L", "M",
                   "N", "O", "P", "Q", "R", "S", "T", "U", "V", "W", "X", "Y", "Z">>
    IN  IF \E i \in 1..26 : lower[i] = c
        THEN <<upper[CHOOSE i \in 1..26 : lower[i] = c]>>
        ELSE CASE c = "U+00DF" -> <<"S", "S">>
               [] c = "U+017F" -> <<"S">>
               [] c = "U+1E97" -> <<"T", "U+0308">>
               [] c = "U+1E9A" -> <<"A", "U+02BE">>
               [] c = "U+FB02" -> <<"F", "L">>
               [] c = "U+FB04" -> <<"F", "F", "L">>
               [] c = "U+FB05" -> <<"S", "T">>
               [] c = "U+FB06" -> <<"S", "T">>
               [] OTHER -> <<c>>

\* s.upper()
RECURSIVE upper(_)
upper(s) ==
    IF s = << >> THEN << >> ELSE UpperChar(Head(s)) \o upper(Tail(s))

\* sys.get_int_max_str_digits(): int() raises ValueError for a string of more
\* digits than this (leading zeros count).
int_max_str_digits == 4300

\* int(digits) raises
int_raises(ds) == Len(ds) > int_max_str_digits

\* int(digits), for a string int() accepts
RECURSIVE ParseInt(_)
ParseInt(ds) ==
    IF ds = << >> THEN 0
    ELSE 10 * ParseInt(SubSeq(ds, 1, Len(ds) - 1)) + DigitValue(ds[Len(ds)])

\* str(n) for n >= 0
RECURSIVE FormatInt(_)
FormatInt(n) ==
    LET digits == <<"0", "1", "2", "3", "4", "5", "6", "7", "8", "9">>
    IN  IF n < 10 THEN <<digits[n + 1]>>
        ELSE FormatInt(n \div 10) \o <<digits[(n % 10) + 1]>>

\* a // b, Python's floor division (b # 0)
FloorDiv(a, b) == IF b > 0 THEN a \div b ELSE (-a) \div (-b)

---------------------------------------------------------------------------
(* LineClassifier / RegionTracker: the per-line predicates of the passes.  *)

\* The backquote character, which a TLA+ string literal cannot hold.
BQ == "BQ"

\* The fence marker: three backquotes.
Fence == <<BQ, BQ, BQ>>

\* line.strip().startswith(Fence)
IsFenceLine(line) == startswith(strip(line), Fence)

\* re.match(r'^<Fence>\s*$', line)
IsBareFence(line) ==
    /\ startswith(line, Fence)
    /\ \A i \in 4..Len(line) : IsSpace(line[i])

\* line.strip().startswith('#')
IsHashLine(line) == startswith(strip(line), <<"#">>)

\* re.match(r'^\s*\d+\.\s', line)
IsOrderedItem(line) ==
    LET n == LeadingSpaces(line)
        rest == SubSeq(line, n + 1, Len(line))
    IN  /\ rest # << >>
        /\ IsDigit(rest[1])
        /\ \E k \in 1..Len(rest) :
              /\ \A j \in 1..k : IsDigit(rest[j])
              /\ k + 2 <= Len(rest)
              /\ rest[k + 1] = "."
              /\ IsSpace(rest[k + 2])

\* re.match(r'^\s*[-*+]\s', line)
IsUnorderedItem(line) ==
    LET n == LeadingSpaces(line)
    IN  /\ n + 2 <= Len(line)
        /\ line[n + 1] \in {"-", "*", "+"}
        /\ IsSpace(line[n + 2])

---------------------------------------------------------------------------
(* WhitespaceNormalizer: fix_trailing_whitespace.                          *)

fix_trailing_whitespace(lines) == [i \in 1..Len(lines) |-> rstrip(lines[i])]

---------------------------------------------------------------------------
(* FenceLanguageInferencer: fix_fenced_code_blocks.                        *)

\* The if / elif chain that picks the tag from the stripped following line.
fence_language(next_line) ==
    IF startswith(next_line, <<"d", "o", "c", "k", "e", "r", " ">>) \/ startswith(next_line, <<"d", "o", "c", "k", "e", "r", "-", "c", "o", "m", "p", "o", "s", "e">>)
    THEN <<"b", "a", "s", "h">>
    ELSE IF startswith(next_line, <<"n", "p", "m", " ">>) \/ startswith(next_line, <<"n", "o", "d", "e", " ">>)
    THEN <<"b", "a", "s", "h">>
    ELSE IF startswith(next_line, <<"g", "i", "t", " ">>) \/ startswith(next_line, <<"c", "d", " ">>)
    THEN <<"b", "a", "s", "h">>
    ELSE IF startswith(next_line, <<"m", "a", "k", "e", " ">>) \/ startswith(next_line, <<"s", "u", "d", "o", " ">>)
    THEN <<"b", "a", "s", "h">>
    ELSE IF startswith(next_line, <<"c", "u", "r", "l", " ">>) \/ startswith(next_line, <<"w", "g", "e", "t", " ">>)
    THEN <<"b", "a", "s", "h">>
    ELSE IF contains(next_line, <<"v", "e", "r", "s", "i", "o", "n", ":">>)
            \/ contains(next_line, <<"s", "e", "r", "v", "i", "c", "e", "s", ":">>)
    THEN <<"y", "a", "m", "l">>
    ELSE IF startswith(next_line, <<"{">>) \/ startswith(next_line, <<"[">>)
    THEN <<"j", "s", "o", "n">>
    ELSE IF startswith(next_line, <<"<">>) /\ contains(next_line, <<">">>)
    THEN <<"h", "t", "m", "l">>
    ELSE IF contains(next_line, <<"d", "e", "f", " ">>)
            \/ contains(next_line, <<"i", "m", "p", "o", "r", "t", " ">>)
            \/ startswith(next_line, <<"c", "l", "a", "s", "s", " ">>)
    THEN <<"p", "y", "t", "h", "o", "n">>
    ELSE IF contains(next_line, <<"f", "u", "n", "c", "t", "i", "o", "n", " ">>)
            \/ contains(next_line, <<"c", "o", "n", "s", "t", " ">>)
            \/ contains(next_line, <<"v", "a", "r", " ">>)
            \/ contains(next_line, <<"l", "e", "t", " ">>)
    THEN <<"j", "a", "v", "a", "s", "c", "r", "i", "p", "t">>
    ELSE IF contains(upper(next_line), <<"S", "E", "L", "E", "C", "T", " ">>)
            \/ contains(upper(next_line), <<"C", "R", "E", "A", "T", "E", " ", "T", "A", "B", "L", "E">>)
    THEN <<"s", "q", "l">>
    ELSE IF contains(next_line, <<"#", "!", "/", "b", "i", "n", "/", "b", "a", "s", "h">>)
            \/ contains(next_line, <<"#", "!", "/", "u", "s", "r", "/", "b", "i", "n", "/", "e", "n", "v", " ", "b", "a", "s", "h">>)
    THEN <<"b", "a", "s", "h">>
    ELSE IF contains(next_line, <<"#", "!", "/", "u", "s", "r", "/", "b", "i", "n", "/", "e", "n", "v", " ", "p", "y", "t", "h", "o", "n">>)
    THEN <<"p", "y", "t", "h", "o", "n">>
    ELSE IF contains(next_line, <<"#", "i", "n", "c", "l", "u", "d", "e", " ">>)
            \/ contains(next_line, <<"i", "n", "t", " ", "m", "a", "i", "n">>)
    THEN <<"c">>
    ELSE <<"b", "a", "s", "h">>

\* Mutant of fence_line: the json rule is tried before every other rule.
fence_line_json_first(lines, i) ==
    IF IsBareFence(lines[i])
    THEN IF i + 1 <= Len(lines)
         THEN IF startswith(strip(lines[i + 1]), <<"{">>) \/ startswith(strip(lines[i + 1]), <<"[">>)
              THEN Fence \o <<"j", "s", "o", "n">>
              ELSE Fence \o fence_language(strip(lines[i + 1]))
         ELSE Fence \o <<"b", "a", "s", "h">>
    ELSE lines[i]

\* One iteration of the while loop: the line written for lines[i].
fence_line(lines, i) ==
    IF IsBareFence(lines[i])
    THEN IF i + 1 <= Len(lines)
         THEN Fence \o fence_language(strip(lines[i + 1]))
         ELSE Fence \o <<"b", "a", "s", "h">>
    ELSE lines[i]

fix_fenced_code_blocks(lines) == [i \in 1..Len(lines) |-> fence_line(lines, i)]

---------------------------------------------------------------------------
(* ListRenumberer: fix_ordered_list_prefixes.                              *)

\* The groups of re.match(r'^(\s*)(\d+)\.\s(.*)$', line) for an ordered item.
DigitRun(line, n) ==
    CHOOSE k \in 0..(Len(line) - n) :
        /\ \A j \in 1..k : IsDigit(line[n + j])
        /\ (n + k + 1 <= Len(line) => ~IsDigit(line[n + k + 1]))

ol_indent(line) == SubSeq(line, 1, LeadingSpaces(line))

ol_digits(line) ==
    LET n == LeadingSpaces(line)
    IN  SubSeq(line, n + 1, n + DigitRun(line, n))

ol_number(line) == ParseInt(ol_digits(line))

ol_text(line) ==
    LET n == LeadingSpaces(line)
    IN  SubSeq(line, n + DigitRun(line, n) + 3, Len(line))

\* list_counters = {}
EmptyCounters == [k \in {} |-> 0]

\* Mutant of SetCounter: the assignment forgets every other indentation.
SetCounter_forgetting(counters, key, value) == [k \in {key} |-> value]

\* list_counters[key] = value
SetCounter(counters, key, value) ==
    [k \in (DOMAIN counters) \cup {key} |-> IF k = key THEN value ELSE counters[k]]

\* list_counters.get(key, 1)
GetCounter(counters, key) == IF key \in DOMAIN counters THEN counters[key] ELSE 1

\* The "new list" test: first line, or the line before is blank or no ordered item.
ol_reset(lines, i) ==
    \/ i = 0
    \/ IsBlank(lines[i])
    \/ ~IsOrderedItem(lines[i])

\* The indentation width of the first non-blank line after lines[i]; -1 stands
\* for the '' the code keeps when there is none (every key is then removed).
ol_next_indent(lines, i) ==
    LET later == {j \in (i + 1)..(Len(lines) - 1) : ~IsBlank(lines[j + 1])}
    IN  IF later = {} THEN -1
        ELSE LeadingSpaces(lines[(CHOOSE j \in later : \A m \in later : j <= m) + 1])

\* Mutant of ol_prune: a key as long as the next indentation is kept.
ol_prune_keep_equal(counters, next_indent) ==
    LET keep == {k \in DOMAIN counters :
                    IF next_indent = -1 THEN FALSE ELSE Len(k) <= next_indent}
    IN  [k \in keep |-> counters[k]]

\* del list_counters[key] for every key at least as long as the next indentation
ol_prune(counters, next_indent) ==
    LET keep == {k \in DOMAIN counters :
                    IF next_indent = -1 THEN FALSE ELSE Len(k) < next_indent}
    IN  [k \in keep |-> counters[k]]

\* The state before the loop.
ol_start ==
    [i |-> 0, list_counters |-> EmptyCounters, in_code_block |-> FALSE,
     fixed_lines |-> << >>, raised |-> FALSE]

\* One iteration of the while loop over lines[i] (i is Python's index); raised
\* when int() raises on the number of an ordered item.
ol_step(lines, st) ==
    LET line == lines[st.i + 1]
    IN  IF IsFenceLine(line)
        THEN [st EXCEPT !.in_code_block = ~st.in_code_block,
                        !.fixed_lines = Append(st.fixed_lines, line),
                        !.i = st.i + 1]
        ELSE IF st.in_code_block
        THEN [st EXCEPT !.fixed_lines = Append(st.fixed_lines, line),
                        !.i = st.i + 1]
        ELSE IF IsOrderedItem(line) /\ int_raises(ol_digits(line))
        THEN [st EXCEPT !.raised = TRUE]
        ELSE IF IsOrderedItem(line)
        THEN LET indent == ol_indent(line)
                 current_num == ol_number(line)
                 c1 == IF ol_reset(lines, st.i)
                       THEN SetCounter(st.list_counters, indent, 1)
                       ELSE st.list_counters
                 correct_num == GetCounter(c1, indent)
                 c2 == SetCounter(c1, indent, correct_num + 1)
                 out == IF current_num # correct_num
                        THEN indent \o FormatInt(correct_num) \o <<".", " ">>
                                    \o ol_text(line)
                        ELSE line
             IN  [st EXCEPT !.list_counters = c2,
                            !.fixed_lines = Append(st.fixed_lines, out),
                            !.i = st.i + 1]
        ELSE IF IsBlank(line)
        THEN [st EXCEPT !.list_counters =
                            ol_prune(st.list_counters, ol_next_indent(lines, st.i)),
                        !.fixed_lines = Append(st.fixed_lines, line),
                        !.i = st.i + 1]
        ELSE [st EXCEPT !.fixed_lines = Append(st.fixed_lines, line),
                        !.i = st.i + 1]

RECURSIVE ol_loop(_, _)
ol_loop(lines, st) ==
    IF st.i < Len(lines) /\ ~st.raised THEN ol_loop(lines, ol_step(lines, st)) ELSE st

\* The value fix_ordered_list_prefixes returns, when it returns.
fix_ordered_list_prefixes(lines) == ol_loop(lines, ol_start).fixed_lines

\* fix_ordered_list_prefixes raises: int() raised in the loop.
ordered_list_raises(lines) == ol_loop(lines, ol_start).raised

\* The outcome of the pass when the loop ended in state st: it raised and
\* the content is what it was, or what it returned.
ol_outcome(lines, st) ==
    [raised |-> st.raised, content |-> IF st.raised THEN lines ELSE st.fixed_lines]

try_fix_ordered_list_prefixes(lines) == ol_outcome(lines, ol_loop(lines, ol_start))

---------------------------------------------------------------------------
(* RegionTracker: the in_code_block flag the for / while loops carry.      *)

\* in_code_block when the loop reaches lines[i] (1-based): toggled once by
\* every fence line before it.
InCodeBlock(lines, i) ==
    Cardinality({j \in 1..(i - 1) : IsFenceLine(lines[j])}) % 2 = 1

---------------------------------------------------------------------------
(* ListIndentNormalizer: fix_list_indent_consistency.                      *)

\* Mutant of indent_line: the indent is rounded up to the next level.
indent_line_rounding_up(line, indent) ==
    LET leading_space == LeadingSpaces(line)
        level == FloorDiv(leading_space + indent - 1, indent)
    IN  IF level = 0
        THEN lstrip(line)
        ELSE Repeat(" ", level * indent) \o lstrip(line)

\* The line written for an unordered item when indent # 0.
indent_line(line, indent) ==
    LET leading_space == LeadingSpaces(line)
        level == FloorDiv(leading_space, indent)
    IN  IF level = 0
        THEN lstrip(line)
        ELSE Repeat(" ", level * indent) \o lstrip(line)

fix_list_indent_consistency(lines, indent) ==
    [i \in 1..Len(lines) |->
        IF IsFenceLine(lines[i]) \/ InCodeBlock(lines, i) THEN lines[i]
        ELSE IF IsUnorderedItem(lines[i]) THEN indent_line(lines[i], indent)
        ELSE lines[i]]

---------------------------------------------------------------------------
(* HeadingStyleConverter: fix_heading_style.                               *)

\* next_line.strip() is non-empty and all '=' or all '-'
IsUnderline(line) ==
    LET s == strip(line)
    IN  /\ s # << >>
        /\ \/ \A i \in 1..Len(s) : s[i] = "="
           \/ \A i \in 1..Len(s) : s[i] = "-"

\* level = 1 if '=' in next_line else 2
underline_level(line) == IF contains(line, <<"=">>) THEN 1 ELSE 2

\* The length of the leading run of '#'.
LeadingHashes(line) ==
    IF \A i \in 1..Len(line) : line[i] = "#" THEN Len(line)
    ELSE (CHOOSE i \in 1..Len(line) :
             line[i] # "#" /\ \A j \in 1..(i - 1) : line[j] = "#") - 1

\* The length of the trailing run of '#'.
TrailingHashes(s) ==
    IF \A i \in 1..Len(s) : s[i] = "#" THEN Len(s)
    ELSE Len(s) - (CHOOSE i \in 1..Len(s) :
             s[i] # "#" /\ \A j \in (i + 1)..Len(s) : s[j] = "#")

\* re.match(r'^(#+)\s+(.+?)(\s+#+)?$', line) succeeds: hashes, whitespace, and
\* at least one more character (which may be the last whitespace character).
atx_match(line) ==
    LET h == LeadingHashes(line)
        rest == SubSeq(line, h + 1, Len(line))
        m == LeadingSpaces(rest)
    IN  /\ h >= 1
        /\ m >= 1
        /\ (Len(rest) > m \/ m >= 2)

\* len(atx_match.group(1))
atx_level(line) == LeadingHashes(line)

\* atx_match.group(2).strip(): group 2 is the shortest text after which only an
\* optional closing run (whitespace, then '#' to the end of the line) is left.
atx_text(line) ==
    LET h == LeadingHashes(line)
        rest == SubSeq(line, h + 1, Len(line))
        r == lstrip(rest)
        th == TrailingHashes(r)
        body == SubSeq(r, 1, Len(r) - th)
        closed == th >= 1 /\ th < Len(r) /\ IsSpace(r[Len(r) - th])
    IN  IF r = << >> THEN << >>
        ELSE IF closed THEN strip(rstrip(body))
        ELSE strip(r)

\* The lines written for an ATX heading line.
atx_lines(line, style) ==
    LET level == atx_level(line)
        heading_text == atx_text(line)
    IN  IF style = "atx"
        THEN <<Repeat("#", level) \o <<" ">> \o heading_text>>
        ELSE IF level <= 2
        THEN <<heading_text,
               IF level = 1 THEN <<"=">> ELSE Repeat("-", Len(heading_text))>>
        ELSE <<Repeat("#", level) \o <<" ">> \o heading_text>>

\* The while loop from Python index i on, with the in_code_block flag.
RECURSIVE heading_loop(_, _, _, _)
heading_loop(lines, i, in_code_block, style) ==
    IF i >= Len(lines) THEN << >>
    ELSE LET line == lines[i + 1]
         IN  IF IsFenceLine(line)
             THEN <<line>> \o heading_loop(lines, i + 1, ~in_code_block, style)
             ELSE IF in_code_block
             THEN <<line>> \o heading_loop(lines, i + 1, in_code_block, style)
             ELSE IF i < Len(lines) - 1 /\ IsUnderline(lines[i + 2])
             THEN IF style = "atx"
                  THEN <<Repeat("#", underline_level(lines[i + 2]))
                            \o <<" ">> \o strip(line)>>
                       \o heading_loop(lines, i + 2, in_code_block, style)
                  ELSE <<line, lines[i + 2]>>
                       \o heading_loop(lines, i + 2, in_code_block, style)
             ELSE IF atx_match(line)
             THEN atx_lines(line, style)
                  \o heading_loop(lines, i + 1, in_code_block, style)
             ELSE <<line>> \o heading_loop(lines, i + 1, in_code_block, style)

fix_heading_style(lines, style) == heading_loop(lines, 0, FALSE, style)

---------------------------------------------------------------------------
(* BlankLineNormalizer: fix_blank_lines.                                   *)

\* fixed_lines is non-empty and its last line is not blank
LastNonBlank(fixed_lines) ==
    fixed_lines # << >> /\ ~IsBlank(fixed_lines[Len(fixed_lines)])

\* The list-item test of the pass, as it applies it to any line.
IsListItem(line) == IsUnorderedItem(line) \/ IsOrderedItem(line)

\* The first loop from Python index i on; fixed_lines is what it has written.
RECURSIVE blank_loop(_, _, _, _)
blank_loop(lines, i, in_code_block, fixed_lines) ==
    IF i >= Len(lines) THEN fixed_lines
    ELSE LET line == lines[i + 1]
             has_next == i + 1 < Len(lines)
         IN  IF IsFenceLine(line)
             THEN IF in_code_block
                  THEN \* end of code block
                       blank_loop(lines, i + 1, FALSE,
                           fixed_lines \o <<line>> \o
                           (IF has_next /\ ~IsBlank(lines[i + 2])
                                        /\ ~IsHashLine(lines[i + 2])
                            THEN << << >> >> ELSE << >>))
                  ELSE \* start of code block
                       blank_loop(lines, i + 1, TRUE,
                           fixed_lines \o
                           (IF i > 0 /\ LastNonBlank(fixed_lines)
                            THEN << << >> >> ELSE << >>) \o <<line>>)
             ELSE IF in_code_block
             THEN blank_loop(lines, i + 1, in_code_block, fixed_lines \o <<line>>)
             ELSE IF IsHashLine(line)
             THEN blank_loop(lines, i + 1, in_code_block,
                      fixed_lines \o
                      (IF i > 0 /\ LastNonBlank(fixed_lines)
                       THEN << << >> >> ELSE << >>) \o <<line>> \o
                      (IF has_next /\ ~IsBlank(lines[i + 2])
                       THEN << << >> >> ELSE << >>))
             ELSE IF IsListItem(line)
             THEN blank_loop(lines, i + 1, in_code_block,
                      fixed_lines \o
                      (IF i > 0 /\ fixed_lines # << >>
                          /\ LET prev_line == strip(fixed_lines[Len(fixed_lines)])
                             IN  prev_line # << >> /\ ~IsListItem(prev_line)
                       THEN << << >> >> ELSE << >>) \o <<line>>)
             ELSE blank_loop(lines, i + 1, in_code_block, fixed_lines \o <<line>>)

\* Mutant of blank_cleanup: the second loop keeps every line.
blank_cleanup_keeping(fixed_lines, k, prev_blank) ==
    SubSeq(fixed_lines, k, Len(fixed_lines))

\* The second loop ("clean up multiple blank lines"): a blank line is kept only
\* when the line written before it is not blank.
RECURSIVE blank_cleanup(_, _, _)
blank_cleanup(fixed_lines, k, prev_blank) ==
    IF k > Len(fixed_lines) THEN << >>
    ELSE LET line == fixed_lines[k]
         IN  IF IsBlank(line)
             THEN (IF prev_blank THEN << >> ELSE <<line>>)
                  \o blank_cleanup(fixed_lines, k + 1, TRUE)
             ELSE <<line>> \o blank_cleanup(fixed_lines, k + 1, FALSE)

fix_blank_lines(lines) == blank_cleanup(blank_loop(lines, 0, FALSE, << >>), 1, FALSE)

---------------------------------------------------------------------------
(* LineWrapper: fix_line_length.                                           *)

\* break_points, in the order the loop tries them
BreakPoints ==
    <<<<".", " ">>,
      <<",", " ">>,
      <<":", " ">>,
      <<";", " ">>,
      <<" ", "-", " ">>,
      <<" ", "a", "n", "d", " ">>,
      <<" ", "o", "r", " ">>,
      <<" ", "b", "u", "t", " ">>>>

\* The "for bp in break_points" loop from the k-th break point on: best_break
\* becomes the end of bp whenever bp's last position inside s[0:limit] is
\* greater than the best_break held so far.
RECURSIVE best_break_loop(_, _, _, _)
best_break_loop(s, limit, k, best_break) ==
    IF k > Len(BreakPoints) THEN best_break
    ELSE LET bp == BreakPoints[k]
             pos == rfind(s, bp, limit)
         IN  best_break_loop(s, limit, k + 1,
                 IF pos > best_break
                 THEN (IF bp[Len(bp)] = " " THEN pos + Len(bp) - 1 ELSE pos + Len(bp))
                 ELSE best_break)

find_best_break(s, limit) == best_break_loop(s, limit, 1, -1)

\* The list-item word loop from word i on: the summed word lengths at the first
\* word that does not fit, unless that is word 0; -1 when best_break stays unset.
RECURSIVE word_break_loop(_, _, _, _)
word_break_loop(words, i, current_len, limit) ==
    IF i >= Len(words) THEN -1
    ELSE IF current_len + Len(words[i + 1]) + 1 > limit
    THEN (IF i > 0 THEN current_len ELSE -1)
    ELSE word_break_loop(words, i + 1, current_len + Len(words[i + 1]) + 1, limit)

\* line.strip().startswith('- ') or line.strip().startswith('* ')
IsWrapListItem(line) ==
    startswith(strip(line), <<"-", " ">>) \/ startswith(strip(line), <<"*", " ">>)

\* The list-item branch for an over-length line.
wrap_list_item(line, max_length) ==
    LET indent == LeadingSpaces(line)
        prefix == SliceTo(line, indent + 2)
        rest == SliceFrom(line, indent + 2)
        limit == max_length - Len(prefix)
        found == find_best_break(rest, limit)
        best_break == IF found <= 0
                      THEN word_break_loop(split(rest), 0, 0, limit)
                      ELSE found
        remaining == lstrip(SliceFrom(rest, best_break))
    IN  IF Len(rest) > limit
        THEN IF best_break > 0
             THEN <<prefix \o rstrip(SliceTo(rest, best_break))>> \o
                  (IF remaining # << >>
                   THEN <<Repeat(" ", indent + 2) \o remaining>> ELSE << >>)
             ELSE <<line>>
        ELSE <<line>>

\* re.search(r'\[([^\]]+)\]\(http[^)]+\)', line) matches at 0-based position p
link_match_at(line, p) ==
    /\ p < Len(line)
    /\ line[p + 1] = "["
    /\ \E q \in (p + 2)..(Len(line) - 1) :
          /\ line[q + 1] = "]"
          /\ \A j \in (p + 1)..(q - 1) : line[j + 1] # "]"
          /\ MatchAt(line, <<"]", "(", "h", "t", "t", "p">>, q)
          /\ q + 6 < Len(line)
          /\ line[q + 7] # ")"
          /\ \E r \in (q + 7)..(Len(line) - 1) : line[r + 1] = ")"

\* match.start(), or -1 when there is no match
link_start(line) ==
    LET hits == {p \in 0..(Len(line) - 1) : link_match_at(line, p)}
    IN  IF hits = {} THEN -1 ELSE CHOOSE p \in hits : \A m \in hits : p <= m

\* Split at best_break, the continuation indented like the line.
split_at(line, best_break) ==
    LET remaining == lstrip(SliceFrom(line, best_break))
    IN  <<rstrip(SliceTo(line, best_break))>> \o
        (IF remaining # << >>
         THEN <<Repeat(" ", LeadingSpaces(line)) \o remaining>> ELSE << >>)

\* The word loop of the last fallback from the k-th word on.
RECURSIVE word_wrap_loop(_, _, _, _, _, _)
word_wrap_loop(words, k, current_len, current_line, indent, max_length) ==
    IF k > Len(words)
    THEN (IF strip(current_line) # << >> THEN <<rstrip(current_line)>> ELSE << >>)
    ELSE LET word == words[k]
         IN  IF current_len + Len(word) + 1 > max_length
             THEN <<rstrip(current_line)>> \o
                  word_wrap_loop(words, k + 1, indent + Len(word) + 1,
                                 Repeat(" ", indent) \o word \o <<" ">>,
                                 indent, max_length)
             ELSE word_wrap_loop(words, k + 1, current_len + Len(word) + 1,
                                 current_line \o word \o <<" ">>,
                                 indent, max_length)

\* The branch for an over-length line holding '](http'.
wrap_link_line(line, max_length) ==
    LET start == link_start(line)
        before == rstrip(SliceTo(line, start))
        best_break == find_best_break(line, max_length)
    IN  IF start >= 0 /\ start < max_length
        THEN (IF before # << >> THEN <<before, SliceFrom(line, start)>> ELSE <<line>>)
        ELSE IF best_break > 0 THEN split_at(line, best_break)
        ELSE <<line>>

\* The branch for any other over-length line.
wrap_plain_line(line, max_length) ==
    LET best_break == find_best_break(line, max_length)
        words == split(line)
        indent == LeadingSpaces(line)
    IN  IF best_break > 0 THEN split_at(line, best_break)
        ELSE IF Len(words) > 1
        THEN word_wrap_loop(words, 1, 0, Repeat(" ", indent), indent, max_length)
        ELSE <<line>>

\* Mutant of wrap_line: a line of exactly max_length characters is wrapped.
wrap_line_strict(line, max_length) ==
    IF IsHashLine(line) THEN <<line>>
    ELSE IF Len(line) < max_length THEN <<line>>
    ELSE IF IsWrapListItem(line) THEN wrap_list_item(line, max_length)
    ELSE IF contains(line, <<"]", "(", "h", "t", "t", "p">>)
    THEN wrap_link_line(line, max_length)
    ELSE wrap_plain_line(line, max_length)

\* The lines written for one line outside code blocks that is no fence line.
wrap_line(line, max_length) ==
    IF IsHashLine(line) THEN <<line>>
    ELSE IF Len(line) <= max_length THEN <<line>>
    ELSE IF IsWrapListItem(line) THEN wrap_list_item(line, max_length)
    ELSE IF contains(line, <<"]", "(", "h", "t", "t", "p">>)
    THEN wrap_link_line(line, max_length)
    ELSE wrap_plain_line(line, max_length)

\* The for loop from the k-th line on.
RECURSIVE wrap_loop(_, _, _)
wrap_loop(lines, k, max_length) ==
    IF k > Len(lines) THEN << >>
    ELSE (IF IsFenceLine(lines[k]) \/ InCodeBlock(lines, k)
          THEN <<lines[k]>>
          ELSE wrap_line(lines[k], max_length))
         \o wrap_loop(lines, k + 1, max_length)

fix_line_length(lines, max_length) == wrap_loop(lines, 1, max_length)

---------------------------------------------------------------------------
(* Configuration: load_markdownlint_config and the command-line override.  *)

\* A JSON scalar as the loader passes it on: an integer or a string.
IntVal(n) == [t |-> "int", n |-> n, s |-> ""]

StrVal(s) == [t |-> "str", n |-> 0, s |-> s]

\* One rule section of the config file ("MD013", "MD003", "MD007"): absent, not
\* an object (e.g. "MD013": false), or an object that may hold the key read.
AbsentSection == [kind |-> "absent", has |-> FALSE, value |-> IntVal(0)]

ScalarSection == [kind |-> "scalar", has |-> FALSE, value |-> IntVal(0)]

EmptySection == [kind |-> "object", has |-> FALSE, value |-> IntVal(0)]

KeySection(v) == [kind |-> "object", has |-> TRUE, value |-> v]

default_config ==
    [line_length |-> IntVal(120), heading_style |-> StrVal("atx"),
     list_indent |-> IntVal(2)]

\* config.get(rule, {}).get(key, default); the second .get raises
\* AttributeError when the section is not an object.
section_raises(section) == section.kind = "scalar"

section_get(section, default) == IF section.has THEN section.value ELSE default

\* load_markdownlint_config(config_path) for a file described by f:
\* f.exists (os.path.exists), f.parses (json.load succeeds), f.is_object (the
\* document is a JSON object) and the three sections.
load_markdownlint_config(f) ==
    IF ~f.exists THEN default_config
    ELSE IF ~f.parses \/ ~f.is_object
            \/ section_raises(f.MD013) \/ section_raises(f.MD003)
            \/ section_raises(f.MD007)
    THEN default_config
    ELSE [line_length |-> section_get(f.MD013, IntVal(120)),
          heading_style |-> section_get(f.MD003, StrVal("atx")),
          list_indent |-> section_get(f.MD007, IntVal(2))]

\* if args.line_length: config['line_length'] = args.line_length
\* (args.line_length is None when the option is absent)
override_line_length(cfg, args) ==
    IF args.has_line_length /\ args.line_length # 0
    THEN [cfg EXCEPT !.line_length = IntVal(args.line_length)]
    ELSE cfg

---------------------------------------------------------------------------
(* fix_markdown_file: the pipeline of passes, in the order of the source.  *)

\* apply_all or name in fixes
Selected(fixes, name) == "all" \in fixes \/ name \in fixes

\* style == 'atx' compares the configured value with a string.
style_arg(v) == IF v.t = "str" THEN v.s ELSE "<not a string>"

\* len(leading_space) // indent raises: ZeroDivisionError for 0, TypeError for
\* a value that is no number; only reached on an unordered item outside code.
list_indent_raises(lines, v) ==
    /\ v.t # "int" \/ v.n = 0
    /\ \E i \in 1..Len(lines) :
          /\ ~IsFenceLine(lines[i])
          /\ ~InCodeBlock(lines, i)
          /\ IsUnorderedItem(lines[i])

\* len(line) <= max_length raises TypeError for a value that is no number;
\* only reached on a line outside code that is neither a fence nor a '#' line.
line_length_raises(lines, v) ==
    /\ v.t # "int"
    /\ \E i \in 1..Len(lines) :
          /\ ~IsFenceLine(lines[i])
          /\ ~InCodeBlock(lines, i)
          /\ ~IsHashLine(lines[i])

\* The passes between reading and comparing, as a function: the content after
\* the passes selected by fixes, or raised when one of them raises.
pipeline(text, cfg, fixes) ==
    LET Kept(c) == [raised |-> FALSE, content |-> c]
        Raised(c) == [raised |-> TRUE, content |-> c]
        \* One stage: a pass applied to the content the stage before it left,
        \* skipped once a pass has raised.
        Then(r, Pass(_)) ==
            CHOOSE out \in {IF v.raised THEN v ELSE Pass(v.content) : v \in {r}} : TRUE
        Whitespace(c) ==
            Kept(IF Selected(fixes, "whitespace") THEN fix_trailing_whitespace(c) ELSE c)
        CodeBlocks(c) ==
            Kept(IF Selected(fixes, "code-blocks") THEN fix_fenced_code_blocks(c) ELSE c)
        Renumber(c) ==
            IF ~Selected(fixes, "lists") THEN Kept(c)
            ELSE try_fix_ordered_list_prefixes(c)
        ListIndent(c) ==
            IF ~Selected(fixes, "lists") THEN Kept(c)
            ELSE IF list_indent_raises(c, cfg.list_indent) THEN Raised(c)
            ELSE Kept(fix_list_indent_consistency(c, cfg.list_indent.n))
        Headings(c) ==
            Kept(IF Selected(fixes, "headings")
                 THEN fix_heading_style(c, style_arg(cfg.heading_style)) ELSE c)
        BlankLines(c) ==
            Kept(IF Selected(fixes, "blank-lines") THEN fix_blank_lines(c) ELSE c)
        LineLength(c) ==
            IF ~Selected(fixes, "line-length") THEN Kept(c)
            ELSE IF line_length_raises(c, cfg.line_length) THEN Raised(c)
            ELSE Kept(fix_line_length(c, cfg.line_length.n))
    IN  Then(Then(Then(Then(Then(Then(Then(Kept(text),
            Whitespace), CodeBlocks), Renumber), ListIndent), Headings),
            BlankLines), LineLength)

---------------------------------------------------------------------------
(* The pipeline as a process: one action per pass (fix_markdown_file,      *)
(* "Apply fixes"), each guarded as in the source by apply_all or its name   *)
(* in fixes.  A pass that raises ends the run in "error".                  *)

\* All non-empty documents of at most n lines drawn from pool.
Docs(pool, n) == UNION {[1..k -> pool] : k \in 1..n}

\* The parts of the state the pipeline does not touch.
IdleConfigFile ==
    [exists |-> FALSE, parses |-> FALSE, is_object |-> FALSE,
     MD013 |-> AbsentSection, MD003 |-> AbsentSection, MD007 |-> AbsentSection]

AllFixes ==
    [has_line_length |-> FALSE, line_length |-> 0, dry_run |-> FALSE,
     parallel |-> FALSE, fixes |-> {"all"}]

PipelineFrame == UNCHANGED <<original, config, runs, ol, cfgfile, cli, files,
                             results, fixed_count, cursor>>

WhitespacePass ==
    /\ pc = "whitespace"
    /\ pass_input' = content
    /\ content' = IF Selected(cli.fixes, "whitespace")
                  THEN fix_trailing_whitespace(content) ELSE content
    /\ pc' = "code-blocks"
    /\ PipelineFrame

CodeBlocksPass ==
    /\ pc = "code-blocks"
    /\ pass_input' = content
    /\ content' = IF Selected(cli.fixes, "code-blocks")
                  THEN fix_fenced_code_blocks(content) ELSE content
    /\ pc' = "renumber"
    /\ PipelineFrame

RenumberPass ==
    /\ pc = "renumber"
    /\ pass_input' = content
    /\ IF Selected(cli.fixes, "lists") /\ ordered_list_raises(content)
       THEN content' = content /\ pc' = "error"
       ELSE /\ content' = IF Selected(cli.fixes, "lists")
                          THEN fix_ordered_list_prefixes(content) ELSE content
            /\ pc' = "list-indent"
    /\ PipelineFrame

ListIndentPass ==
    /\ pc = "list-indent"
    /\ pass_input' = content
    /\ IF Selected(cli.fixes, "lists") /\ list_indent_raises(content, config.list_indent)
       THEN content' = content /\ pc' = "error"
       ELSE /\ content' = IF Selected(cli.fixes, "lists")
                          THEN fix_list_indent_consistency(content, config.list_indent.n)
                          ELSE content
            /\ pc' = "headings"
    /\ PipelineFrame

HeadingsPass ==
    /\ pc = "headings"
    /\ pass_input' = content
    /\ content' = IF Selected(cli.fixes, "headings")
                  THEN fix_heading_style(content, style_arg(config.heading_style))
                  ELSE content
    /\ pc' = "blank-lines"
    /\ PipelineFrame

BlankLinesPass ==
    /\ pc = "blank-lines"
    /\ pass_input' = content
    /\ content' = IF Selected(cli.fixes, "blank-lines")
                  THEN fix_blank_lines(content) ELSE content
    /\ pc' = "line-length"
    /\ PipelineFrame

LineLengthPass ==
    /\ pc = "line-length"
    /\ pass_input' = content
    /\ IF Selected(cli.fixes, "line-length") /\ line_length_raises(content, config.line_length)
       THEN content' = content /\ pc' = "error"
       ELSE /\ content' = IF Selected(cli.fixes, "line-length")
                          THEN fix_line_length(content, config.line_length.n)
                          ELSE content
            /\ pc' = "done"
    /\ PipelineFrame

\* The tool is run again on the file the finished run left: the text that
\* run produced, or with --dry-run, which writes nothing, the text it read.
MaxRuns == 2

Rerun ==
    /\ pc = "done"
    /\ runs < MaxRuns
    /\ \E text \in {IF cli.dry_run THEN original ELSE content} :
          /\ original' = text
          /\ pass_input' = text
          /\ content' = text
    /\ runs' = runs + 1
    /\ pc' = "whitespace"
    /\ UNCHANGED <<config, ol, cfgfile, cli, files, results, fixed_count, cursor>>

PipelineNext ==
    \/ WhitespacePass
    \/ CodeBlocksPass
    \/ RenumberPass
    \/ ListIndentPass
    \/ HeadingsPass
    \/ BlankLinesPass
    \/ LineLengthPass
    \/ Rerun

\* Documents and configurations of the full-pipeline specification.
MaxLines == 3

PipelinePool ==
    {<<>>,
     <<"a", " ", " ">>,
     <<"#", " ", "T">>,
     <<"-", " ", "a", " ", "b", ",", " ", "c">>,
     <<"1", ".", " ", "x">>,
     <<"3", ".", " ", "y">>,
     <<BQ, BQ, BQ>>,
     <<"-", "-", "-">>,
     <<"a", " ", "b", " ", "c", " ", "d", " ", "e">>,
     <<" ", " ", "-", " ", "q">>}

PipelineConfigs ==
    {[line_length |-> IntVal(n), heading_style |-> StrVal(h), list_indent |-> IntVal(2)] :
        n \in {6, 120}, h \in {"atx", "setext"}}

Init ==
    /\ content \in Docs(PipelinePool, MaxLines)
    /\ pass_input = content
    /\ original = content
    /\ config \in PipelineConfigs
    /\ pc = "whitespace"
    /\ runs = 1
    /\ ol = ol_start
    /\ cfgfile = IdleConfigFile
    /\ cli = AllFixes
    /\ files = << >>
    /\ results = << >>
    /\ fixed_count = 0
    /\ cursor = 0

Next == PipelineNext

Spec == Init /\ [][Next]_vars

---------------------------------------------------------------------------
(* Properties of the full pipeline.                                        *)

\* C1: applying the full pipeline to the output of a full run yields exactly
\* that output again: when the second run over a document is done, its result
\* equals the text it started from, fix(fix(x)) = fix(x).
Idempotence == (pc = "done" /\ runs = 2) => content = original

---------------------------------------------------------------------------
(* The pipeline over documents holding one well-formed fenced block.       *)

MaxInner == 2

\* Lines put between the fences; none of them is a fence line.
InnerPool ==
    {<<>>,
     <<" ", " ">>,
     <<"x", " ", " ">>,
     <<"1", ".", " ", "a">>,
     <<"3", ".", " ", "b">>,
     <<"#", " ", "h">>,
     <<"-", " ", "a", " ", "b", ",", " ", "c", " ", "d">>,
     <<"-", "-", "-">>,
     <<" ", " ", " ", "-", " ", "z">>}

\* All sequences of at most n lines drawn from pool, the empty one included.
Seqs(pool, n) == UNION {[1..k -> pool] : k \in 0..n}

\* optional line, opening fence, inner lines, closing fence, optional line
FencedDocs ==
    {pre \o <<open>> \o inner \o <<Fence>> \o post :
        pre \in Seqs({<<"a">>, <<"#", " ", "T">>}, 1),
        open \in {Fence, Fence \o <<"p", "y">>},
        inner \in Seqs(InnerPool, MaxInner),
        post \in Seqs({<<"b">>, <<"1", ".", " ", "z">>}, 1)}

FencedInit ==
    /\ content \in FencedDocs
    /\ pass_input = content
    /\ original = content
    /\ config \in {[line_length |-> IntVal(6), heading_style |-> StrVal(h),
                    list_indent |-> IntVal(2)] : h \in {"atx", "setext"}}
    /\ pc = "whitespace"
    /\ runs = 1
    /\ ol = ol_start
    /\ cfgfile = IdleConfigFile
    /\ cli = AllFixes
    /\ files = << >>
    /\ results = << >>
    /\ fixed_count = 0
    /\ cursor = 0

FencedSpec == FencedInit /\ [][Next]_vars

\* The positions of the fence lines of a document, in increasing order.
FencePositions(lines) == {i \in 1..Len(lines) : IsFenceLine(lines[i])}

\* The lines strictly between the first and the second fence line.
FirstBlock(lines) ==
    LET fp == FencePositions(lines)
        a == CHOOSE i \in fp : \A j \in fp : i <= j
        b == CHOOSE i \in fp \ {a} : \A j \in fp \ {a} : i <= j
    IN  SubSeq(lines, a + 1, b - 1)

\* C2: in a document whose fences form a well-formed open/close pair, the lines
\* strictly between the fences come out of the full pipeline in the same number
\* and order, each equal to the input line with its trailing whitespace removed.
CodeBlockInvariance ==
    (pc = "done" /\ runs = 1) =>
        /\ Cardinality(FencePositions(content)) = 2
        /\ FirstBlock(content) =
              [i \in 1..Len(FirstBlock(original)) |-> rstrip(FirstBlock(original)[i])]

---------------------------------------------------------------------------
(* ListRenumberer as a process: one action per iteration of its loop.      *)

MaxOlLines == 4

OlPool ==
    {<<>>,
     <<"1", ".", " ", "a">>,
     <<"3", ".", " ", "b">>,
     <<" ", " ", "1", ".", " ", "c">>,
     <<" ", " ", "4", ".", " ", "d">>,
     <<"x">>,
     <<BQ, BQ, BQ>>}

RenumberInit ==
    /\ content \in Docs(OlPool, MaxOlLines)
    /\ pass_input = content
    /\ original = content
    /\ config = default_config
    /\ pc = "renumber-loop"
    /\ runs = 1
    /\ ol = ol_start
    /\ cfgfile = IdleConfigFile
    /\ cli = AllFixes
    /\ files = << >>
    /\ results = << >>
    /\ fixed_count = 0
    /\ cursor = 0

\* while i < len(lines): one iteration
RenumberStep ==
    /\ pc = "renumber-loop"
    /\ ol.i < Len(content)
    /\ ~ol.raised
    /\ ol' = ol_step(content, ol)
    /\ UNCHANGED <<content, pass_input, original, config, pc, runs, cfgfile, cli,
                   files, results, fixed_count, cursor>>

\* return '\n'.join(fixed_lines)
RenumberReturn ==
    /\ pc = "renumber-loop"
    /\ ol.i >= Len(content)
    /\ ~ol.raised
    /\ pass_input' = content
    /\ content' = ol.fixed_lines
    /\ pc' = "renumber-done"
    /\ UNCHANGED <<original, config, runs, ol, cfgfile, cli, files, results,
                   fixed_count, cursor>>

RenumberNext == RenumberStep \/ RenumberReturn

RenumberSpec == RenumberInit /\ [][RenumberNext]_vars

\* Line i (1-based) of a document is an ordered item the pass renumbers.
OlItemAt(lines, i) ==
    /\ ~IsFenceLine(lines[i])
    /\ ~InCodeBlock(lines, i)
    /\ IsOrderedItem(lines[i])

\* The first line of the contiguous run of ordered items of one indentation
\* that line i belongs to.
RunStart(lines, i) ==
    CHOOSE s \in 1..i :
        /\ \A j \in s..i : OlItemAt(lines, j) /\ ol_indent(lines[j]) = ol_indent(lines[i])
        /\ (s > 1 => ~(OlItemAt(lines, s - 1)
                       /\ ol_indent(lines[s - 1]) = ol_indent(lines[i])))

\* C3: in the output of ListRenumberer the k-th item of every contiguous run
\* of ordered items at one indentation outside code blocks carries the
\* number k, with indentation and item text unchanged.
RunsNumberedFromOne ==
    pc = "renumber-done" =>
        /\ Len(content) = Len(pass_input)
        /\ \A i \in 1..Len(content) :
              OlItemAt(pass_input, i) =>
                 /\ IsOrderedItem(content[i])
                 /\ ol_number(content[i]) = i - RunStart(pass_input, i) + 1
                 /\ ol_indent(content[i]) = ol_indent(pass_input[i])
                 /\ ol_text(content[i]) = ol_text(pass_input[i])

\* C4: processing an ordered item at indentation A never changes the counter
\* stored for any other indentation B, and an item whose indentation has no
\* counter (never set, or removed) or whose counter is reset by this item (first
\* line, or the line before is blank or no ordered item) is numbered 1.
CountersIndependent ==
    [][(pc = "renumber-loop" /\ ol.i < Len(content) /\ OlItemAt(content, ol.i + 1)) =>
         LET A == ol_indent(content[ol.i + 1])
             emitted == ol'.fixed_lines[Len(ol'.fixed_lines)]
             others == ((DOMAIN ol.list_counters) \cup (DOMAIN ol'.list_counters)) \ {A}
         IN  /\ \A B \in others :
                   /\ B \in DOMAIN ol.list_counters
                   /\ B \in DOMAIN ol'.list_counters
                   /\ ol'.list_counters[B] = ol.list_counters[B]
             /\ (\/ A \notin DOMAIN ol.list_counters
                 \/ ol.i = 0
                 \/ IsBlank(content[ol.i])
                 \/ ~IsOrderedItem(content[ol.i]))
                   => ol_number(emitted) = 1
      ]_vars

\* A depth-0 and a depth-2 list, separated by a blank line, are both tracked:
\* the depth-2 item was numbered 1 while the depth-0 counter kept its value.
TwoDepthsTracked ==
    /\ pc = "renumber-loop"
    /\ ol.i >= 3
    /\ IsBlank(content[ol.i - 1])
    /\ OlItemAt(content, ol.i)
    /\ ol_indent(content[ol.i]) = <<" ", " ">>
    /\ DOMAIN ol.list_counters = {<< >>, <<" ", " ">>}
    /\ ol.list_counters[<< >>] = 2
    /\ ol.list_counters[<<" ", " ">>] = 2

----------------------------------------------------------------------------
(* FenceLanguageInferencer run alone: --fix code-blocks over short          *)
(* documents whose lines exercise every rule of the table.                  *)

MaxFenceLines == 2

FencePool ==
    {<<"d", "o", "c", "k", "e", "r", " ", "r", "u", "n", " ", "n", "g", "i", "n", "x">>,
         <<"d", "o", "c", "k", "e", "r", "-", "c", "o", "m", "p", "o", "s", "e", " ", "u", "p">>,
         <<"n", "p", "m", " ", "i">>,
         <<"g", "i", "t", " ", "v", "e", "r", "s", "i", "o", "n", ":", " ", "2">>,
         <<"s", "u", "d", "o", " ", "x">>,
         <<"w", "g", "e", "t", " ", "x">>,
         <<"v", "e", "r", "s", "i", "o", "n", ":", " ", "3">>,
         <<"{", "\"", "a", "\"", ":", "1", "}">>,
         <<"[", "1", "]">>,
         <<"{", " ", "s", "e", "r", "v", "i", "c", "e", "s", ":", " ", "}">>,
         <<"<", "a", ">">>,
         <<"<", "a">>,
         <<"i", "m", "p", "o", "r", "t", " ", "c", "o", "n", "s", "t", " ">>,
         <<"c", "l", "a", "s", "s", " ", "A">>,
         <<"l", "e", "t", " ", "x">>,
         <<"s", "e", "l", "e", "c", "t", " ", "1">>,
         <<"#", "!", "/", "b", "i", "n", "/", "b", "a", "s", "h">>,
         <<"#", "!", "/", "u", "s", "r", "/", "b", "i", "n", "/", "e", "n", "v", " ", "p", "y", "t", "h", "o", "n">>,
         <<"i", "n", "t", " ", "m", "a", "i", "n">>,
         <<"l", "s">>,
         <<" ", " ", "{", "x", " ">>,
         <<BQ, BQ, BQ>>}

CodeBlocksOnly == [AllFixes EXCEPT !.fixes = {"code-blocks"}]

LanguageInit ==
    /\ content \in Docs(FencePool, MaxFenceLines)
    /\ pass_input = content
    /\ original = content
    /\ config = default_config
    /\ pc = "whitespace"
    /\ runs = 1
    /\ ol = ol_start
    /\ cfgfile = IdleConfigFile
    /\ cli = CodeBlocksOnly
    /\ files = << >>
    /\ results = << >>
    /\ fixed_count = 0
    /\ cursor = 0

LanguageSpec == LanguageInit /\ [][Next]_vars

\* The rule table of the claim, as data: rule k matches line l.
ShellPrefixes ==
    {<<"d", "o", "c", "k", "e", "r", " ">>,
         <<"d", "o", "c", "k", "e", "r", "-", "c", "o", "m", "p", "o", "s", "e">>,
         <<"n", "p", "m", " ">>,
         <<"n", "o", "d", "e", " ">>,
         <<"g", "i", "t", " ">>,
         <<"c", "d", " ">>,
         <<"m", "a", "k", "e", " ">>,
         <<"s", "u", "d", "o", " ">>,
         <<"c", "u", "r", "l", " ">>,
         <<"w", "g", "e", "t", " ">>}

RuleMatches(k, l) ==
    CASE k = 1 -> \E p \in ShellPrefixes : startswith(l, p)
      [] k = 2 -> \E p \in {<<"v", "e", "r", "s", "i", "o", "n", ":">>, <<"s", "e", "r", "v", "i", "c", "e", "s", ":">>} : contains(l, p)
      [] k = 3 -> \E p \in {<<"{">>, <<"[">>} : startswith(l, p)
      [] k = 4 -> startswith(l, <<"<">>) /\ contains(l, <<">">>)
      [] k = 5 -> \/ \E p \in {<<"d", "e", "f", " ">>, <<"i", "m", "p", "o", "r", "t", " ">>} : contains(l, p)
                  \/ startswith(l, <<"c", "l", "a", "s", "s", " ">>)
      [] k = 6 -> \E p \in {<<"f", "u", "n", "c", "t", "i", "o", "n", " ">>, <<"c", "o", "n", "s", "t", " ">>, <<"v", "a", "r", " ">>, <<"l", "e", "t", " ">>} : contains(l, p)
      [] k = 7 -> \E p \in {<<"S", "E", "L", "E", "C", "T", " ">>, <<"C", "R", "E", "A", "T", "E", " ", "T", "A", "B", "L", "E">>} : contains(upper(l), p)
      [] k = 8 -> \E p \in {<<"#", "!", "/", "b", "i", "n", "/", "b", "a", "s", "h">>, <<"#", "!", "/", "u", "s", "r", "/", "b", "i", "n", "/", "e", "n", "v", " ", "b", "a", "s", "h">>} : contains(l, p)
      [] k = 9 -> contains(l, <<"#", "!", "/", "u", "s", "r", "/", "b", "i", "n", "/", "e", "n", "v", " ", "p", "y", "t", "h", "o", "n">>)
      [] k = 10 -> \E p \in {<<"#", "i", "n", "c", "l", "u", "d", "e", " ">>, <<"i", "n", "t", " ", "m", "a", "i", "n">>} : contains(l, p)

RuleTag ==
    <<<<"b", "a", "s", "h">>,
      <<"y", "a", "m", "l">>,
      <<"j", "s", "o", "n">>,
      <<"h", "t", "m", "l">>,
      <<"p", "y", "t", "h", "o", "n">>,
      <<"j", "a", "v", "a", "s", "c", "r", "i", "p", "t">>,
      <<"s", "q", "l">>,
      <<"b", "a", "s", "h">>,
      <<"p", "y", "t", "h", "o", "n">>,
      <<"c">>>>

TagBash == <<"b", "a", "s", "h">>

\* The tag of the first rule that matches l, bash when none does.
FirstMatch(l) ==
    IF \E k \in 1..Len(RuleTag) : RuleMatches(k, l)
    THEN RuleTag[CHOOSE k \in 1..Len(RuleTag) :
                    RuleMatches(k, l) /\ \A j \in 1..(k - 1) : ~RuleMatches(j, l)]
    ELSE TagBash

\* C5: after the fence pass every bare fence line carries the tag of the
\* first rule of the ordered table (shell prefixes, yaml markers, json
\* opener, then the keyword rules) that matches the next line, and bash when
\* no rule matches or the fence is the last line; a following line
\* 'docker run nginx' gives bash and '{"a":1}' gives json.
FirstMatchWins ==
    pc = "renumber" =>
        /\ Len(content) = Len(pass_input)
        /\ \A i \in 1..Len(pass_input) :
              IF IsBareFence(pass_input[i])
              THEN /\ content[i] = Fence \o (IF i < Len(pass_input)
                                             THEN FirstMatch(strip(pass_input[i + 1]))
                                             ELSE TagBash)
                   /\ (i < Len(pass_input) /\ pass_input[i + 1] = <<"d", "o", "c", "k", "e", "r", " ", "r", "u", "n", " ", "n", "g", "i", "n", "x">>
                          => content[i] = Fence \o TagBash)
                   /\ (i < Len(pass_input) /\ pass_input[i + 1] = <<"{", "\"", "a", "\"", ":", "1", "}">>
                          => content[i] = Fence \o <<"j", "s", "o", "n">>)
              ELSE content[i] = pass_input[i]

\* A bare fence followed by a line that both the yaml and the json rule
\* match has been tagged, and so has a fence that ends the document.
OverlappingRulesReached ==
    /\ pc = "renumber"
    /\ Len(pass_input) = 2
    /\ IsBareFence(pass_input[1])
    /\ RuleMatches(2, strip(pass_input[2]))
    /\ RuleMatches(3, strip(pass_input[2]))
    /\ content[1] = Fence \o <<"y", "a", "m", "l">>

----------------------------------------------------------------------------
(* HeadingStyleConverter run twice: target setext, then target atx.         *)

MaxHeadingLines == 3

HeadingPool ==
    {<<"#", " ", "T">>,
     <<"#", "#", " ", "U">>,
     <<"#", "#", "#", " ", "V">>,
     <<"#", " ", "T", " ", "#">>,
     <<"-", "-", "-">>,
     <<"=", "=", "=">>,
     <<"x">>,
     <<>>,
     <<BQ, BQ, BQ>>}

HeadingInit ==
    /\ content \in Docs(HeadingPool, MaxHeadingLines)
    /\ pass_input = content
    /\ original = content
    /\ config = [default_config EXCEPT !.heading_style = StrVal("setext")]
    /\ pc = "to-setext"
    /\ runs = 1
    /\ ol = ol_start
    /\ cfgfile = IdleConfigFile
    /\ cli = AllFixes
    /\ files = << >>
    /\ results = << >>
    /\ fixed_count = 0
    /\ cursor = 0

\* content = fix_heading_style(content, 'setext')
ToSetext ==
    /\ pc = "to-setext"
    /\ pass_input' = content
    /\ content' = fix_heading_style(content, style_arg(config.heading_style))
    /\ config' = [config EXCEPT !.heading_style = StrVal("atx")]
    /\ pc' = "to-atx"
    /\ UNCHANGED <<original, runs, ol, cfgfile, cli, files, results, fixed_count, cursor>>

\* content = fix_heading_style(content, 'atx')
ToAtx ==
    /\ pc = "to-atx"
    /\ pass_input' = content
    /\ content' = fix_heading_style(content, style_arg(config.heading_style))
    /\ pc' = "round-trip-done"
    /\ UNCHANGED <<original, config, runs, ol, cfgfile, cli, files, results,
                   fixed_count, cursor>>

HeadingNext == ToSetext \/ ToAtx

HeadingSpec == HeadingInit /\ [][HeadingNext]_vars

\* Line i (1-based) is an ATX heading outside code blocks.
AtxHeadingAt(lines, i) ==
    /\ ~IsFenceLine(lines[i])
    /\ ~InCodeBlock(lines, i)
    /\ atx_match(lines[i])

\* The <<level, text>> pairs of the ATX headings of a document whose level
\* is in the given set, in document order.
AtxHeadings(lines, levels) ==
    LET idx == SelectSeq([i \in 1..Len(lines) |-> i],
                         LAMBDA i : AtxHeadingAt(lines, i)
                                    /\ atx_level(lines[i]) \in levels)
    IN  [k \in 1..Len(idx) |-> <<atx_level(lines[idx[k]]), atx_text(lines[idx[k]])>>]

\* a is obtained from b by deleting elements.
RECURSIVE IsSubsequence(_, _)
IsSubsequence(a, b) ==
    IF a = << >> THEN TRUE
    ELSE IF b = << >> THEN FALSE
    ELSE IF Head(a) = Head(b) THEN IsSubsequence(Tail(a), Tail(b))
    ELSE IsSubsequence(a, Tail(b))

\* C6: after target setext and then target atx, every ATX heading of level 1
\* or 2 outside code blocks is again an ATX heading with its original text
\* and level, in the original order; after target setext alone, every ATX
\* heading of level 3 or more is still there with its level and text.
HeadingRoundTrip ==
    /\ pc = "round-trip-done" =>
          IsSubsequence(AtxHeadings(original, {1, 2}), AtxHeadings(content, 1..6))
    /\ pc = "to-atx" =>
          IsSubsequence(AtxHeadings(pass_input, 3..6), AtxHeadings(content, 3..6))

----------------------------------------------------------------------------
(* LineWrapper run alone on one line, alone or after an opening fence, with *)
(* limits around the line's length.                                         *)

MaxWrapLength == 5

WrapAlphabet == {"a", " ", ",", "-"}

\* Every line over the alphabet of up to MaxWrapLength + 1 characters.
CharLines == UNION {[1..k -> WrapAlphabet] : k \in 0..(MaxWrapLength + 1)}

\* A heading, and lines with a link or the start of one.
LinkLines ==
    {<<"#", " ", "a", "a", ",", " ", "a">>,
     <<"a", " ", "[", "b", "]", "(", "h", "t", "t", "p", "x", ")">>,
     <<"[", "b", "]", "(", "h", "t", "t", "p", "x", ")", " ", "a">>,
     <<"a", "]", "(", "h", "t", "t", "p", " ", "a", ",", " ", "b">>}

\* <<line, max_length>>
WrapInputs ==
    (CharLines \X (1..MaxWrapLength))
        \cup UNION {{<<l, Len(l) - 1>>, <<l, Len(l)>>} : l \in LinkLines}

LineLengthOnly == [AllFixes EXCEPT !.fixes = {"line-length"}]

WrapInit ==
    /\ \E inp \in WrapInputs :
          /\ content \in {<<inp[1]>>, <<Fence, inp[1]>>}
          /\ config = [default_config EXCEPT !.line_length = IntVal(inp[2])]
    /\ pass_input = content
    /\ original = content
    /\ pc = "line-length"
    /\ runs = 1
    /\ ol = ol_start
    /\ cfgfile = IdleConfigFile
    /\ cli = LineLengthOnly
    /\ files = << >>
    /\ results = << >>
    /\ fixed_count = 0
    /\ cursor = 0

WrapSpec == WrapInit /\ [][LineLengthPass]_vars

\* C7: the wrapper writes a line of at most lineLength characters unchanged,
\* as one line (a line of exactly lineLength characters is not split), and
\* writes at most two lines for a line of lineLength + 1 characters.
WrapBoundary ==
    pc = "done" =>
        LET n == Len(pass_input)
            line == pass_input[n]
            out == SubSeq(content, n, Len(content))
        IN  /\ SubSeq(content, 1, n - 1) = SubSeq(pass_input, 1, n - 1)
            /\ Len(line) <= config.line_length.n => out = <<line>>
            /\ Len(line) = config.line_length.n + 1 => Len(out) \in {1, 2}

\* A line of lineLength + 1 characters has been split in two.
BoundarySplitReached ==
    /\ pc = "done"
    /\ Len(pass_input) = 1
    /\ Len(pass_input[1]) = config.line_length.n + 1
    /\ Len(content) = 2

----------------------------------------------------------------------------
(* BlankLineNormalizer run alone.                                           *)

MaxBlankLines == 5

BlankPool ==
    {<<>>, <<" ">>, <<"x">>, <<"#", " ", "h">>, <<"-", " ", "a">>, <<BQ, BQ, BQ>>}

BlankLinesOnly == [AllFixes EXCEPT !.fixes = {"blank-lines"}]

BlankInit ==
    /\ content \in Docs(BlankPool, MaxBlankLines)
    /\ pass_input = content
    /\ original = content
    /\ config = default_config
    /\ pc = "blank-lines"
    /\ runs = 1
    /\ ol = ol_start
    /\ cfgfile = IdleConfigFile
    /\ cli = BlankLinesOnly
    /\ files = << >>
    /\ results = << >>
    /\ fixed_count = 0
    /\ cursor = 0

BlankSpec == BlankInit /\ [][BlankLinesPass]_vars

\* The positions of the lines of a document that are not blank, in order.
NonBlankPositions(lines) ==
    SelectSeq([i \in 1..Len(lines) |-> i], LAMBDA i : ~IsBlank(lines[i]))

\* The number of blank lines in gap g of a document: before its first
\* non-blank line (g = 0), between its g-th and the next, after its last.
BlankGap(lines, g) ==
    LET idx == NonBlankPositions(lines)
        lo == IF g = 0 THEN 0 ELSE idx[g]
        hi == IF g = Len(idx) THEN Len(lines) + 1 ELSE idx[g + 1]
    IN  hi - lo - 1

\* C8: in the output of the blank-line pass no two consecutive lines are
\* blank, and every place where the input has one or more blank lines in a
\* row (a run of two or more included) has exactly one blank line.
BlankRunsCollapsed ==
    pc = "line-length" =>
        LET nin == NonBlankPositions(pass_input)
            nout == NonBlankPositions(content)
        IN  /\ \A i \in 1..(Len(content) - 1) :
                  ~(IsBlank(content[i]) /\ IsBlank(content[i + 1]))
            /\ Len(nout) = Len(nin)
            /\ \A k \in 1..Len(nin) : content[nout[k]] = pass_input[nin[k]]
            /\ \A g \in 0..Len(nin) :
                  BlankGap(pass_input, g) >= 1 => BlankGap(content, g) = 1

\* A run of two or more blank lines of the input has been collapsed, in a
\* document where the pass also inserted a blank line.
BlankRunCollapsedReached ==
    /\ pc = "line-length"
    /\ \E g \in 0..Len(NonBlankPositions(pass_input)) :
          BlankGap(pass_input, g) >= 2 /\ BlankGap(content, g) = 1
    /\ \E g \in 0..Len(NonBlankPositions(pass_input)) :
          BlankGap(pass_input, g) = 0 /\ BlankGap(content, g) = 1

----------------------------------------------------------------------------
(* main, lines 802-808: the configuration is loaded and the command-line    *)
(* line length is applied to it.                                            *)

\* Values a config file may hold for the three keys: within the contract and
\* outside it.
LineLengthValues == {IntVal(80), IntVal(0), IntVal(-1), StrVal("80")}

HeadingStyleValues == {StrVal("atx"), StrVal("setext"), StrVal("consistent"), IntVal(1)}

ListIndentValues == {IntVal(4), IntVal(0), StrVal("4")}

Sections(values) ==
    {AbsentSection, ScalarSection, EmptySection} \cup {KeySection(v) : v \in values}

\* A missing file, a file that is no JSON, a JSON document that is no object,
\* and every object built from the sections above.
ConfigFiles ==
    {IdleConfigFile,
     [IdleConfigFile EXCEPT !.exists = TRUE],
     [IdleConfigFile EXCEPT !.exists = TRUE, !.parses = TRUE]}
        \cup [exists : {TRUE}, parses : {TRUE}, is_object : {TRUE},
              MD013 : Sections(LineLengthValues),
              MD003 : Sections(HeadingStyleValues),
              MD007 : Sections(ListIndentValues)]

\* --line-length absent, or given with an integer.
CommandLines ==
    {AllFixes} \cup {[AllFixes EXCEPT !.has_line_length = TRUE, !.line_length = n] :
                        n \in {0, 100, -5}}

ConfigInit ==
    /\ cfgfile \in ConfigFiles
    /\ cli \in CommandLines
    /\ config = default_config
    /\ content = << << >> >>
    /\ pass_input = content
    /\ original = content
    /\ pc = "load-config"
    /\ runs = 1
    /\ ol = ol_start
    /\ files = << >>
    /\ results = << >>
    /\ fixed_count = 0
    /\ cursor = 0

\* config = load_markdownlint_config(args.config)
LoadConfig ==
    /\ pc = "load-config"
    /\ config' = load_markdownlint_config(cfgfile)
    /\ pc' = "override"
    /\ UNCHANGED <<content, pass_input, original, runs, ol, cfgfile, cli, files,
                   results, fixed_count, cursor>>

\* if args.line_length: config['line_length'] = args.line_length
OverrideLineLength ==
    /\ pc = "override"
    /\ config' = override_line_length(config, cli)
    /\ pc' = "configured"
    /\ UNCHANGED <<content, pass_input, original, runs, ol, cfgfile, cli, files,
                   results, fixed_count, cursor>>

ConfigNext == LoadConfig \/ OverrideLineLength

ConfigSpec == ConfigInit /\ [][ConfigNext]_vars

\* C9: whatever the config file holds, the configuration that reaches the
\* transforms has a positive integer line length, a heading style of atx or
\* setext and a positive integer list indent, and a missing value is the
\* default 120 / atx / 2 (for a command line that gives no negative length).
ConfigFallback ==
    pc = "configured" /\ cli.line_length >= 0 =>
        /\ config.line_length.t = "int" /\ config.line_length.n > 0
        /\ config.heading_style \in {StrVal("atx"), StrVal("setext")}
        /\ config.list_indent.t = "int" /\ config.list_indent.n > 0
        /\ (~cfgfile.MD013.has /\ ~cli.has_line_length
               => config.line_length = IntVal(120))
        /\ (~cfgfile.MD003.has => config.heading_style = StrVal("atx"))
        /\ (~cfgfile.MD007.has => config.list_indent = IntVal(2))

----------------------------------------------------------------------------
(* Files.  A file holds bytes; fix_markdown_file reads and writes it as     *)
(* UTF-8 text (lines 645 and 675, encoding='utf-8', default newline         *)
(* handling, on a system whose os.linesep is '\n').                         *)

\* chr(n) for n in 32..126, as the strings of the model.
AsciiPrintable ==
    <<" ", "!", "\"", "#", "$", "%", "&", "'", "(", ")", "*", "+", ",", "-", ".", "/",
      "0", "1", "2", "3", "4", "5", "6", "7", "8", "9", ":", ";", "<", "=", ">", "?",
      "@", "A", "B", "C", "D", "E", "F", "G", "H", "I", "J", "K", "L", "M", "N", "O",
      "P", "Q", "R", "S", "T", "U", "V", "W", "X", "Y", "Z", "[", "\\", "]", "^", "_",
      BQ, "a", "b", "c", "d", "e", "f", "g", "h", "i", "j", "k", "l", "m", "n", "o",
      "p", "q", "r", "s", "t", "u", "v", "w", "x", "y", "z", "{", "|", "}", "~">>

HexDigits ==
    <<"0", "1", "2", "3", "4", "5", "6", "7", "8", "9", "A", "B", "C", "D", "E", "F">>

\* '%04X' % n
RECURSIVE Hex(_, _)
Hex(n, width) ==
    IF n = 0 /\ width <= 0 THEN ""
    ELSE Hex(n \div 16, width - 1) \o HexDigits[(n % 16) + 1]

\* int(s[2:k], 16) for a token s = 'U+XXXX'
RECURSIVE HexValue(_, _)
HexValue(s, k) ==
    IF k < 3 THEN 0
    ELSE 16 * HexValue(s, k - 1)
         + (CHOOSE d \in 0..15 : HexDigits[d + 1] = SubSeq(s, k, k))

\* chr(n): the character of the model with code point n.
CharOf(n) ==
    IF n \in 32..126 THEN AsciiPrintable[n - 31]
    ELSE IF n = 9 THEN "\t"
    ELSE IF n = 12 THEN "\f"
    ELSE IF n = 13 THEN "\r"
    ELSE "U+" \o Hex(n, 4)

\* ord(c)
CodePoint(c) ==
    IF Len(c) < 6
    THEN IF c = "\t" THEN 9
         ELSE IF c = "\f" THEN 12
         ELSE IF c = "\r" THEN 13
         ELSE 31 + (CHOOSE k \in 1..Len(AsciiPrintable) : AsciiPrintable[k] = c)
    ELSE HexValue(c, Len(c))

\* chr(n).encode('utf-8') for a code point that is no surrogate.
Utf8(n) ==
    IF n < 128 THEN <<n>>
    ELSE IF n < 2048 THEN <<192 + (n \div 64), 128 + (n % 64)>>
    ELSE IF n < 65536
         THEN <<224 + (n \div 4096), 128 + ((n \div 64) % 64), 128 + (n % 64)>>
         ELSE <<240 + (n \div 262144), 128 + ((n \div 4096) % 64),
                128 + ((n \div 64) % 64), 128 + (n % 64)>>

\* '\n'.join(lines).encode('utf-8') raises UnicodeEncodeError: a surrogate.
encode_raises(lines) ==
    \E i \in 1..Len(lines) : \E j \in 1..Len(lines[i]) :
        CodePoint(lines[i][j]) \in 55296..57343

\* '\n'.join(lines).encode('utf-8'): the bytes a text is written as.
RECURSIVE Encode(_)
Encode(lines) ==
    LET RECURSIVE EncodeLine(_)
        EncodeLine(line) ==
            IF line = << >> THEN << >>
            ELSE Utf8(CodePoint(Head(line))) \o EncodeLine(Tail(line))
    IN  IF Len(lines) = 1 THEN EncodeLine(lines[1])
        ELSE EncodeLine(lines[1]) \o <<10>> \o Encode(Tail(lines))

\* The character that starts at byte i of b, decoded strictly: its code point
\* and its length in bytes, or not ok (a stray or missing continuation byte,
\* an overlong form, a surrogate, a code point above 0x10FFFF).
Utf8At(b, i) ==
    LET Byte(k) == IF i + k <= Len(b) THEN b[i + k] ELSE 0
        Cont(k) == Byte(k) \in 128..191
        b0 == b[i]
    IN  IF b0 < 128 THEN [ok |-> TRUE, code |-> b0, len |-> 1]
        ELSE IF b0 \in 194..223
        THEN [ok |-> Cont(1), code |-> (b0 - 192) * 64 + (Byte(1) - 128), len |-> 2]
        ELSE IF b0 \in 224..239
        THEN [ok |-> /\ Cont(1) /\ Cont(2)
                     /\ (b0 = 224 => Byte(1) >= 160)
                     /\ (b0 = 237 => Byte(1) <= 159),
              code |-> (b0 - 224) * 4096 + (Byte(1) - 128) * 64 + (Byte(2) - 128),
              len |-> 3]
        ELSE IF b0 \in 240..244
        THEN [ok |-> /\ Cont(1) /\ Cont(2) /\ Cont(3)
                     /\ (b0 = 240 => Byte(1) >= 144)
                     /\ (b0 = 244 => Byte(1) <= 143),
              code |-> (b0 - 240) * 262144 + (Byte(1) - 128) * 4096
                          + (Byte(2) - 128) * 64 + (Byte(3) - 128),
              len |-> 4]
        ELSE [ok |-> FALSE, code |-> 0, len |-> 1]

\* bytes.decode('utf-8') from byte i on: the code points, or raised
\* (UnicodeDecodeError).
RECURSIVE Decode(_, _)
Decode(b, i) ==
    IF i > Len(b) THEN [raised |-> FALSE, codes |-> << >>]
    ELSE LET c == Utf8At(b, i)
             rest == Decode(b, i + c.len)
         IN  IF ~c.ok \/ rest.raised THEN [raised |-> TRUE, codes |-> << >>]
             ELSE [raised |-> FALSE, codes |-> <<c.code>> \o rest.codes]

\* The text f.read() returns for decoded code points, as content.split('\n')
\* sees it: '\r\n' and '\r' are read as '\n' (universal newlines).
RECURSIVE TextOf(_)
TextOf(codes) ==
    LET eol == {k \in 1..Len(codes) : codes[k] \in {10, 13}}
    IN  IF eol = {} THEN <<[k \in 1..Len(codes) |-> CharOf(codes[k])]>>
        ELSE LET k == CHOOSE e \in eol : \A o \in eol : e <= o
                 crlf == codes[k] = 13 /\ k < Len(codes) /\ codes[k + 1] = 10
             IN  <<[j \in 1..(k - 1) |-> CharOf(codes[j])]>>
                     \o TextOf(SubSeq(codes, k + (IF crlf THEN 2 ELSE 1), Len(codes)))

\* A file is [content, readable, writable, quota]: content is the bytes it
\* holds, readable and writable say whether open(path, 'r') and
\* open(path, 'w') succeed, and quota is the number of bytes the file system
\* lets the file hold (a full disk, a size limit), NoQuota when there is no
\* limit.
NoQuota == -1

\* with open(filepath, 'r', encoding='utf-8') as f: content = f.read()
read_text(file) ==
    IF ~file.readable THEN [raised |-> TRUE, text |-> << << >> >>]
    ELSE LET d == Decode(file.content, 1)
         IN  IF d.raised THEN [raised |-> TRUE, text |-> << << >> >>]
             ELSE [raised |-> FALSE, text |-> TextOf(d.codes)]

\* f.write(text) and the close on a file open() has accepted do not raise:
\* the text can be encoded and its bytes fit the quota.
write_fits(file, text) ==
    /\ ~encode_raises(text)
    /\ file.quota = NoQuota \/ Len(Encode(text)) <= file.quota

\* The bytes of text that reach the file: all of them, the ones that fit
\* when the quota cuts the write short, none when the text cannot be encoded.
written(file, text) ==
    IF encode_raises(text) THEN << >>
    ELSE IF write_fits(file, text) THEN Encode(text)
    ELSE SubSeq(Encode(text), 1, file.quota)

\* A file that held old after bytes were written from its start: the write
\* truncates nothing, what lay beyond the bytes written stays.
overwrite(old, bytes) == bytes \o SubSeq(old, Len(bytes) + 1, Len(old))

\* Lines 673-682, once the passes have run: in is what the read gave, out
\* what the passes gave.  open(filepath, 'w') empties the file before
\* anything is written.
body_after_passes(file, in, out, dry_run) ==
    IF in.raised \/ out.raised
    THEN [raised |-> TRUE, returned |-> FALSE, content |-> file.content]
    ELSE IF out.content # in.text
    THEN IF ~dry_run
         THEN IF ~file.writable
              THEN [raised |-> TRUE, returned |-> FALSE, content |-> file.content]
              ELSE [raised |-> ~write_fits(file, out.content),
                    returned |-> write_fits(file, out.content),
                    content |-> written(file, out.content)]
         ELSE [raised |-> FALSE, returned |-> TRUE, content |-> file.content]
    ELSE [raised |-> FALSE, returned |-> FALSE, content |-> file.content]

\* Lines 648-682, once the file has been read: the passes on the text read,
\* then the comparison and the write.
body_after_read(file, in, cfg, dry_run, fixes) ==
    body_after_passes(file, in, pipeline(in.text, cfg, fixes), dry_run)

\* Mutant of file_body: the write is done in dry-run mode too.
file_body_writing_dry(file, cfg, dry_run, fixes) ==
    body_after_read(file, read_text(file), cfg, FALSE, fixes)

\* The try body of fix_markdown_file for a file: the value returned and the
\* bytes left on disk, or raised when the read, a pass or the write raises.
file_body(file, cfg, dry_run, fixes) ==
    body_after_read(file, read_text(file), cfg, dry_run, fixes)

\* Mutant of fix_markdown_file: no except clause, the exception propagates.
fix_markdown_file_uncaught(file, cfg, dry_run, fixes) ==
    file_body(file, cfg, dry_run, fixes)

\* except Exception: log the error, return False.  Nothing is restored: the
\* file stays as the body left it.
fix_markdown_file(file, cfg, dry_run, fixes) ==
    LET body == file_body(file, cfg, dry_run, fixes)
    IN  IF body.raised
        THEN [raised |-> FALSE, returned |-> FALSE, content |-> body.content]
        ELSE body

----------------------------------------------------------------------------
(* main, lines 836-872: the files are processed one after the other, or by  *)
(* a pool of worker processes whose results are collected in list order.    *)
(* In a worker a call is a sequence of steps; in the sequential loop, where *)
(* nothing else runs, a call is one step.                                   *)

MaxFiles == 3

\* A file of the given text.
FileOf(text, readable, writable, quota) ==
    [content |-> Encode(text), readable |-> readable, writable |-> writable,
     quota |-> quota]

\* A file that needs a fix: writable, read-only, one on which the write
\* fails at once, one on which it fails part way and leaves text that needs
\* a fix itself, and one on which it fails in the middle of a character; a
\* file that needs no fix with the default configuration and on which the
\* list-indent pass raises when the configured indent is 0; and a file that
\* cannot be read.
FileKinds ==
    {FileOf(<<<<"a", " ", " ">>>>, TRUE, TRUE, NoQuota),
     FileOf(<<<<"a", " ", " ">>>>, TRUE, FALSE, NoQuota),
     FileOf(<<<<"a", " ", " ">>>>, TRUE, TRUE, 0),
     FileOf(<<<<"a", " ", "b", " ", " ">>>>, TRUE, TRUE, 2),
     FileOf(<<<<"U+00E9", " ", " ">>>>, TRUE, TRUE, 1),
     FileOf(<<<<"-", " ", "a">>>>, TRUE, TRUE, NoQuota),
     FileOf(<<<<"a">>>>, FALSE, TRUE, NoQuota)}

RunConfigs == {default_config, [default_config EXCEPT !.list_indent = IntVal(0)]}

\* --fix whitespace lists
RunFixes == {"whitespace", "lists"}

\* The texts a call can read or write during a run: the texts of the files
\* at the start, their fixed texts, the text a write cut short leaves, its
\* fixed text, and the empty text of a file just opened for writing.  A step
\* that met any other text would find no entry for it in the tables below.
RunTexts ==
    {<< << >> >>,
     <<<<"a", " ", " ">>>>, <<<<"a">>>>,
     <<<<"a", " ", "b", " ", " ">>>>, <<<<"a", " ", "b">>>>, <<<<"a", " ">>>>,
     <<<<"U+00E9", " ", " ">>>>, <<<<"U+00E9">>>>,
     <<<<"-", " ", "a">>>>}

\* The files of a run, with everything they can hold: a text, or the first
\* byte of a character of two.
RunFiles ==
    {[f EXCEPT !.content = b] :
        f \in FileKinds, b \in {Encode(t) : t \in RunTexts} \cup {<<195>>}}

\* The read of every file of a run, the passes on every text, the write of
\* every text and fix_markdown_file on every file, computed once: a step
\* looks its result up here, so that deciding whether the step is enabled
\* does not run them again.
Reads == {[file |-> f, result |-> read_text(f)] : f \in RunFiles}

Passes ==
    {[text |-> t, cfg |-> c, result |-> pipeline(t, c, RunFixes)] :
        t \in RunTexts, c \in RunConfigs}

Writes ==
    {[file |-> f, text |-> t, fits |-> write_fits(f, t), bytes |-> written(f, t)] :
        f \in FileKinds, t \in RunTexts}

Calls ==
    {[file |-> f, cfg |-> c, dry_run |-> d,
      result |-> fix_markdown_file(f, c, d, RunFixes)] :
        f \in RunFiles, c \in RunConfigs, d \in BOOLEAN}

\* files_to_process for a file system of k files: the lists of at most
\* MaxFiles paths that name every file, some of them more than once (a path
\* given twice with -f, or matched by two patterns); files are numbered in
\* the order in which the list first names them.
TaskLists(k) ==
    {t \in UNION {[1..n -> 1..k] : n \in k..MaxFiles} :
        /\ \A p \in 1..k : \E j \in 1..Len(t) : t[j] = p
        /\ \A j \in 1..Len(t) : \A p \in 1..(t[j] - 1) : \E h \in 1..(j - 1) : t[h] = p}

\* The call of fix_markdown_file for one entry of files_to_process: the path,
\* where the call is (pending, writing: about to open the file for writing,
\* opened, returning, done), how often it was started, whether it has read
\* the file and the text it read, the text it is going to write, and its
\* outcome.
Pending(path) ==
    [path |-> path, pc |-> "pending", calls |-> 0, read |-> FALSE,
     text |-> << << >> >>, out |-> << << >> >>, done |-> FALSE,
     raised |-> FALSE, returned |-> FALSE]

RunInit ==
    /\ files \in UNION {[1..k -> FileKinds] : k \in 0..MaxFiles}
    /\ original = files
    /\ config \in RunConfigs
    /\ cli \in {[AllFixes EXCEPT !.dry_run = d, !.parallel = p,
                                  !.fixes = RunFixes] : d, p \in BOOLEAN}
    /\ \E t \in TaskLists(Len(files)) : results = [j \in 1..Len(t) |-> Pending(t[j])]
    /\ fixed_count = 0
    /\ cursor = 0
    /\ pc = "start"
    /\ content = << << >> >>
    /\ pass_input = content
    /\ runs = 1
    /\ ol = ol_start
    /\ cfgfile = IdleConfigFile

RunFrame == UNCHANGED <<content, pass_input, original, config, runs, ol, cfgfile, cli>>

\* if not files_to_process: return 1; else choose the parallel or the
\* sequential loop.
Dispatch ==
    /\ pc = "start"
    /\ pc' = IF Len(results) = 0 THEN "no-files"
             ELSE IF cli.parallel /\ Len(results) > 1 THEN "parallel"
             ELSE "sequential"
    /\ UNCHANGED <<files, results, fixed_count, cursor>>
    /\ RunFrame

\* The read of lines 645-646 on the file as it is now.
FileRead(file) == (CHOOSE r \in Reads : r.file = file).result

\* The call of fix_markdown_file for entry i of the list, run as a whole.
FileCall(i) ==
    (CHOOSE c \in Calls : /\ c.file = files[results[i].path]
                          /\ c.cfg = config
                          /\ c.dry_run = cli.dry_run).result

\* The effect of a whole call with outcome r for entry i.
RunFile(i, r) ==
    /\ files' = [files EXCEPT ![results[i].path].content = r.content]
    /\ results' = [results EXCEPT ![i] =
                      [@ EXCEPT !.pc = "done", !.calls = @ + 1,
                                !.read = ~FileRead(files[results[i].path]).raised,
                                !.text = FileRead(files[results[i].path]).text,
                                !.done = TRUE, !.raised = r.raised,
                                !.returned = r.returned]]

\* for file_path in files_to_process: if fix_markdown_file(...): fixed_count += 1
SequentialStep ==
    /\ pc = "sequential"
    /\ cursor < Len(results)
    /\ \E r \in {FileCall(cursor + 1)} :
          /\ RunFile(cursor + 1, r)
          /\ IF r.raised
             THEN pc' = "crashed" /\ UNCHANGED <<fixed_count, cursor>>
             ELSE /\ fixed_count' = fixed_count + (IF r.returned THEN 1 ELSE 0)
                  /\ cursor' = cursor + 1
                  /\ pc' = pc
    /\ RunFrame

\* The submitted calls run in worker processes at the same time, each as a
\* sequence of steps on the files that nothing orders against the steps of
\* the other calls.  WorkerFrame is what a step of a worker leaves alone.
WorkerFrame ==
    /\ UNCHANGED <<fixed_count, cursor, pc>>
    /\ RunFrame

\* A worker starts call i: it reads the file, runs the passes and compares
\* (lines 645-673).  An exception is caught and the call is about to return
\* False; so is a call that finds nothing to change; a dry run that finds a
\* change is about to return True; otherwise the call is about to write.
WorkerRead ==
    /\ pc = "parallel"
    /\ \E i \in 1..Len(results) :
          /\ results[i].pc = "pending"
          /\ \E in \in {FileRead(files[results[i].path])} :
             \E out \in {IF in.raised THEN [raised |-> TRUE, content |-> in.text]
                         ELSE (CHOOSE c \in Passes : /\ c.text = in.text
                                                      /\ c.cfg = config).result} :
                results' = [results EXCEPT ![i] =
                    [@ EXCEPT !.calls = @ + 1,
                              !.read = ~in.raised,
                              !.text = in.text,
                              !.out = out.content,
                              !.pc = IF ~out.raised /\ out.content # in.text
                                        /\ ~cli.dry_run
                                     THEN "writing" ELSE "returning",
                              !.returned = ~out.raised /\ out.content # in.text]]
    /\ UNCHANGED files
    /\ WorkerFrame

\* open(filepath, 'w') (line 675): the file is emptied, or open raises, the
\* exception is caught and the call is about to return False.
WorkerOpen ==
    /\ pc = "parallel"
    /\ \E i \in 1..Len(results) :
          /\ results[i].pc = "writing"
          /\ IF files[results[i].path].writable
             THEN /\ files' = [files EXCEPT ![results[i].path].content = << >>]
                  /\ results' = [results EXCEPT ![i].pc = "opened"]
             ELSE /\ files' = files
                  /\ results' = [results EXCEPT ![i].pc = "returning",
                                                ![i].returned = FALSE]
    /\ WorkerFrame

\* f.write(content) and the close (line 676): the bytes of the text, or the
\* ones that fitted when the write raises, are written from the start of the
\* file over what another call may have written since this call opened it;
\* an exception is caught and the call is about to return False.
WorkerWrite ==
    /\ pc = "parallel"
    /\ \E i \in 1..Len(results) :
          /\ results[i].pc = "opened"
          /\ \E w \in {CHOOSE w \in Writes :
                          /\ w.file = original[results[i].path]
                          /\ w.text = results[i].out} :
                /\ files' = [files EXCEPT ![results[i].path].content =
                                overwrite(@, w.bytes)]
                /\ results' = [results EXCEPT ![i].pc = "returning",
                                              ![i].returned = w.fits]
    /\ WorkerFrame

\* The call returns and its future is done.
WorkerReturn ==
    /\ pc = "parallel"
    /\ \E i \in 1..Len(results) :
          /\ results[i].pc = "returning"
          /\ results' = [results EXCEPT ![i].pc = "done", ![i].done = TRUE]
    /\ UNCHANGED files
    /\ WorkerFrame

\* for future in futures: if future.result(): fixed_count += 1
\* future.result() waits for the call and raises what the call raised.
Collect ==
    /\ pc = "parallel"
    /\ cursor < Len(results)
    /\ results[cursor + 1].done
    /\ IF results[cursor + 1].raised
       THEN pc' = "crashed" /\ UNCHANGED <<fixed_count, cursor>>
       ELSE /\ fixed_count' = fixed_count + (IF results[cursor + 1].returned THEN 1 ELSE 0)
            /\ cursor' = cursor + 1
            /\ pc' = pc
    /\ UNCHANGED <<files, results>>
    /\ RunFrame

\* The loop is over: the count is logged and main returns 0.
Report ==
    /\ pc \in {"sequential", "parallel"}
    /\ cursor = Len(results)
    /\ pc' = "done"
    /\ UNCHANGED <<files, results, fixed_count, cursor>>
    /\ RunFrame

RunNext ==
    \/ Dispatch
    \/ SequentialStep
    \/ WorkerRead
    \/ WorkerOpen
    \/ WorkerWrite
    \/ WorkerReturn
    \/ Collect
    \/ Report

RunSpec == RunInit /\ [][RunNext]_vars

\* The loop and the worker processes keep running.
FairRunSpec == RunSpec /\ WF_vars(RunNext)

\* What a call that read text from file p does when nothing fails: the text
\* the passes make of it.
Fixed(text) == pipeline(text, config, cli.fixes).content

\* A call on file p that read text fails: a pass raises, or the text needs a
\* fix and the fixed text cannot be written.
TextFails(p, text) ==
    \/ pipeline(text, config, cli.fixes).raised
    \/ /\ Fixed(text) # text
       /\ ~cli.dry_run
       /\ ~(original[p].writable /\ write_fits(original[p], Fixed(text)))

\* Call i failed: it could not read its file, or it failed on what it read.
CallFails(i) == ~results[i].read \/ TextFails(results[i].path, results[i].text)

\* File p of the initial file system fails: it cannot be read, or a call
\* that reads its text fails.
FileFails(p) ==
    \/ read_text(original[p]).raised
    \/ TextFails(p, read_text(original[p]).text)

\* File p of the initial file system needs a fix.
FileChanges(p) ==
    Fixed(read_text(original[p]).text) # read_text(original[p]).text

\* The list names file p once.
ListedOnce(p) == Cardinality({j \in 1..Len(results) : results[j].path = p}) = 1

RunEnded ==
    /\ \A i \in 1..Len(results) :
          /\ results[i].calls = 1
          /\ results[i].done
          /\ CallFails(i) => ~results[i].returned
          /\ ~CallFails(i) => results[i].returned = (Fixed(results[i].text) # results[i].text)
          /\ ListedOnce(results[i].path) => (CallFails(i) <=> FileFails(results[i].path))
          /\ ~FileFails(results[i].path) => ~CallFails(i)
    /\ \A p \in 1..Len(files) :
          ~FileFails(p) =>
              files[p].content =
                  (IF FileChanges(p) /\ ~cli.dry_run
                   THEN Encode(Fixed(read_text(original[p]).text))
                   ELSE original[p].content)
    /\ fixed_count = Cardinality({i \in 1..Len(results) : results[i].returned})

\* C10: in sequential and in parallel mode a read, transform or write
\* failure of a call never ends the run; the run always reaches its end, and
\* there every entry of the list has been processed exactly once, a call
\* that failed is 'not fixed', every other call has the result of what it
\* read, a file on which nothing fails has no failed call and holds its
\* fixed text, and the fixed count is the number of entries whose processing
\* returned 'changed'.
FailureIsolation ==
    /\ [](pc # "crashed")
    /\ [](pc = "done" => RunEnded)
    /\ <>(pc \in {"done", "no-files"})

\* A parallel run has ended in which one file could not be read, the write
\* of one failed part way, and a third was fixed and counted.
IsolatedFailuresReached ==
    /\ pc = "done"
    /\ cli.parallel
    /\ ~cli.dry_run
    /\ Len(files) = 3
    /\ \E i, j, k \in 1..3 :
          /\ ~original[results[i].path].readable
          /\ original[results[j].path].quota = 2
          /\ files[results[j].path].content = <<97, 32>>
          /\ ~results[j].returned
          /\ results[k].returned
    /\ fixed_count = 1

----------------------------------------------------------------------------
(* The value fix_markdown_file returns and what it leaves on disk.          *)

\* Call i is over and the pipeline produced an output for the text it read.
HasOutput(i) ==
    /\ results[i].done
    /\ results[i].read
    /\ ~pipeline(results[i].text, config, cli.fixes).raised

\* C11 as stated: the call returns true exactly when the pipeline output
\* differs from the content the call read, the file is written only when the
\* content differs and dry-run is off, and in dry-run mode the file is not
\* changed and the flag is the one a non-dry run on the same content returns.
ModifiedFlag ==
    \A i \in 1..Len(results) :
        HasOutput(i) =>
            LET p == results[i].path
                text == results[i].text
            IN  /\ results[i].returned = (Fixed(text) # text)
                /\ (ListedOnce(p) /\ files[p].content # original[p].content) =>
                      Fixed(text) # text /\ ~cli.dry_run
                /\ cli.dry_run =>
                      /\ files[p].content = original[p].content
                      /\ results[i].returned =
                            fix_markdown_file([original[p] EXCEPT !.content = Encode(text)],
                                              config, FALSE, cli.fixes).returned

\* C11, amended: the same, except where the write fails: a non-dry run on a
\* file that needs a fix and cannot be written returns false, and leaves the
\* file as it was when the file cannot be opened for writing and with the
\* bytes of the output that were written when the write fails after that,
\* while a dry run on such a file returns true.
ModifiedFlagUnlessWriteFails ==
    \A i \in 1..Len(results) :
        HasOutput(i) =>
            LET p == results[i].path
                text == results[i].text
                differs == Fixed(text) # text
                fits == original[p].writable /\ write_fits(original[p], Fixed(text))
            IN  /\ results[i].returned = (differs /\ (cli.dry_run \/ fits))
                /\ ListedOnce(p) =>
                      files[p].content =
                          (IF ~differs \/ cli.dry_run \/ ~original[p].writable
                           THEN original[p].content
                           ELSE written(original[p], Fixed(text)))
                /\ cli.dry_run => files[p].content = original[p].content
                /\ (cli.dry_run /\ (differs => fits)) =>
                      results[i].returned =
                          fix_markdown_file([original[p] EXCEPT !.content = Encode(text)],
                                            config, FALSE, cli.fixes).returned

\* A dry run has returned true for a file that needs a fix and has left it
\* as it was, next to a file that needs none.
DryRunFlagReached ==
    /\ pc = "done"
    /\ cli.dry_run
    /\ \E i, j \in 1..Len(results) :
          /\ HasOutput(i) /\ results[i].returned
          /\ files[results[i].path].content = original[results[i].path].content
          /\ Fixed(results[i].text) # results[i].text
          /\ HasOutput(j) /\ ~results[j].returned

----------------------------------------------------------------------------
(* main and fix_markdown_file together: the configuration is loaded, the    *)
(* command line applied, and the passes run on a file with the result.      *)

MaxTotalLines == 1

TotalPool ==
    {<<"-", " ", "a">>, <<"a", " ", "b", ",", " ", "c", " ", "d", " ", "e", " ", "f">>, <<"#", " ", "T">>, <<BQ, BQ, BQ>>, <<>>}

\* Config files that set the line length and the list indent, or neither.
TotalConfigFiles ==
    {IdleConfigFile}
        \cup [exists : {TRUE}, parses : {TRUE}, is_object : {TRUE},
              MD013 : {AbsentSection} \cup {KeySection(v) : v \in LineLengthValues},
              MD003 : {AbsentSection},
              MD007 : {AbsentSection} \cup {KeySection(v) : v \in ListIndentValues}]

TotalInit ==
    /\ cfgfile \in TotalConfigFiles
    /\ cli \in {AllFixes, [AllFixes EXCEPT !.has_line_length = TRUE, !.line_length = 100]}
    /\ config = default_config
    /\ content \in Docs(TotalPool, MaxTotalLines)
    /\ pass_input = content
    /\ original = content
    /\ pc = "load-config"
    /\ runs = 1
    /\ ol = ol_start
    /\ files = << >>
    /\ results = << >>
    /\ fixed_count = 0
    /\ cursor = 0

\* fix_markdown_file is called with the configuration: content = original_content
BeginPasses ==
    /\ pc = "configured"
    /\ pc' = "whitespace"
    /\ UNCHANGED <<content, pass_input, original, config, runs, ol, cfgfile, cli,
                   files, results, fixed_count, cursor>>

TotalNext == ConfigNext \/ BeginPasses \/ PipelineNext

TotalSpec == TotalInit /\ [][TotalNext]_vars

\* C12: with every configuration the loader or the command line hands over,
\* and every input text, no transform raises.
Totality == pc # "error"

----------------------------------------------------------------------------
(* The reset rule and the counter lifetime of ListRenumberer.               *)

\* The last non-blank line before line i (1-based), 0 when there is none.
PrevNonBlank(lines, i) ==
    IF \E p \in 1..(i - 1) : ~IsBlank(lines[p])
    THEN CHOOSE p \in 1..(i - 1) :
            ~IsBlank(lines[p]) /\ \A q \in (p + 1)..(i - 1) : IsBlank(lines[q])
    ELSE 0

\* C13: an ordered item outside code blocks continues the numbering (the
\* previous number plus one) when the previous non-blank line is an ordered
\* item at the same indentation, blank lines between them or not, and is
\* numbered 1 otherwise, also after an ordered item of another indentation.
CounterResetRule ==
    pc = "renumber-done" =>
        \A i \in 1..Len(pass_input) :
            OlItemAt(pass_input, i) =>
                LET p == PrevNonBlank(pass_input, i)
                IN  IF p # 0 /\ OlItemAt(pass_input, p)
                       /\ ol_indent(pass_input[p]) = ol_indent(pass_input[i])
                    THEN ol_number(content[i]) = ol_number(content[p]) + 1
                    ELSE ol_number(content[i]) = 1

\* The first non-blank line after line i (1-based), 0 when there is none.
NextNonBlank(lines, i) ==
    IF \E n \in (i + 1)..Len(lines) : ~IsBlank(lines[n])
    THEN CHOOSE n \in (i + 1)..Len(lines) :
            ~IsBlank(lines[n]) /\ \A q \in (i + 1)..(n - 1) : IsBlank(lines[q])
    ELSE 0

\* C14: a step of the renumberer over a blank line outside a code block
\* leaves exactly the tracked indentations that are shorter than the
\* indentation of the next non-blank line (none when no non-blank line
\* follows), with their values.
CounterLifetime ==
    [][(/\ pc = "renumber-loop"
        /\ ol'.i = ol.i + 1
        /\ ~ol.in_code_block
        /\ IsBlank(content[ol.i + 1]))
       => LET n == NextNonBlank(content, ol.i + 1)
              kept == {k \in DOMAIN ol.list_counters :
                          n # 0 /\ Len(k) < LeadingSpaces(content[n])}
          IN  /\ DOMAIN ol'.list_counters = kept
              /\ \A k \in kept : ol'.list_counters[k] = ol.list_counters[k]]_vars

\* The blank line after a nested item has been processed before a line
\* indented like the nested item: the outer counter is left, the nested one
\* is gone.
CounterPrunedReached ==
    /\ pc = "renumber-loop"
    /\ ol.i = 3
    /\ ~ol.in_code_block
    /\ IsOrderedItem(content[1]) /\ ol_indent(content[1]) = << >>
    /\ IsOrderedItem(content[2]) /\ ol_indent(content[2]) = <<" ", " ">>
    /\ IsBlank(content[3])
    /\ Len(content) = 4 /\ LeadingSpaces(content[4]) = 2
    /\ DOMAIN ol.list_counters = {<< >>}
    /\ ol.list_counters[<< >>] = 2

----------------------------------------------------------------------------
(* HeadingStyleConverter run alone, once, with either target.                *)

MaxStyleLines == 3

StylePool ==
    {<<"#", " ", "T", "i">>,
     <<"#", "#", " ", "U", "v", " ", "#">>,
     <<"#", "#", "#", " ", "V">>,
     <<"-", "-", "-">>,
     <<"=">>,
     <<"x">>,
     <<>>,
     <<BQ, BQ, BQ>>}

HeadingsOnly == [AllFixes EXCEPT !.fixes = {"headings"}]

StyleInit ==
    /\ content \in Docs(StylePool, MaxStyleLines)
    /\ pass_input = content
    /\ original = content
    /\ config \in {[default_config EXCEPT !.heading_style = StrVal(s)] :
                      s \in {"atx", "setext"}}
    /\ pc = "headings"
    /\ runs = 1
    /\ ol = ol_start
    /\ cfgfile = IdleConfigFile
    /\ cli = HeadingsOnly
    /\ files = << >>
    /\ results = << >>
    /\ fixed_count = 0
    /\ cursor = 0

StyleSpec == StyleInit /\ [][HeadingsPass]_vars

\* The number of ATX headings of level 1 or 2 outside code blocks before
\* line i.
ShortHeadingsBefore(lines, i) ==
    Cardinality({p \in 1..(i - 1) : AtxHeadingAt(lines, p) /\ atx_level(lines[p]) <= 2})

\* C15: with target setext every ATX heading of level 1 or 2 outside code
\* blocks is written as its text and an underline as long as the text, of
\* '=' for level 1 and of '-' for level 2, and an ATX heading of level 3 or
\* more stays an ATX heading of its level and text.
SetextConversion ==
    pc = "blank-lines" /\ config.heading_style = StrVal("setext") =>
        /\ Len(content) = Len(pass_input)
                            + ShortHeadingsBefore(pass_input, Len(pass_input) + 1)
        /\ \A i \in 1..Len(pass_input) :
              AtxHeadingAt(pass_input, i) =>
                  LET k == i + ShortHeadingsBefore(pass_input, i)
                      level == atx_level(pass_input[i])
                      text == atx_text(pass_input[i])
                  IN  IF level <= 2
                      THEN /\ content[k] = text
                           /\ content[k + 1] =
                                 Repeat(IF level = 1 THEN "=" ELSE "-", Len(text))
                      ELSE /\ atx_match(content[k])
                           /\ atx_level(content[k]) = level
                           /\ atx_text(content[k]) = text

\* C16: a blank line followed by a line of only '=' or only '-', both outside
\* code blocks, is not a setext heading: the two lines are in the output,
\* one after the other, as they were.
BlankIsNoHeadingText ==
    pc = "blank-lines" =>
        \A i \in 1..(Len(pass_input) - 1) :
            (/\ IsBlank(pass_input[i])
             /\ IsUnderline(pass_input[i + 1])
             /\ ~InCodeBlock(pass_input, i))
            => \E k \in 1..(Len(content) - 1) :
                  /\ content[k] = pass_input[i]
                  /\ content[k + 1] = pass_input[i + 1]

\* C17: with target atx every ATX heading of level 1 to 6 outside code
\* blocks is in the output as the line made of its '#' run, one space and
\* its text, whatever line follows it.
AtxNormalization ==
    pc = "blank-lines" /\ config.heading_style = StrVal("atx") =>
        \A i \in 1..Len(pass_input) :
            AtxHeadingAt(pass_input, i) /\ atx_level(pass_input[i]) \in 1..6 =>
                \E k \in 1..Len(content) :
                    content[k] = Repeat("#", atx_level(pass_input[i])) \o <<" ">>
                                     \o atx_text(pass_input[i])

----------------------------------------------------------------------------
(* BlankLineNormalizer run alone on documents with headings of both forms,  *)
(* fences and list items of both kinds.                                     *)

MaxAroundLines == 4

AroundPool ==
    {<<>>, <<"x">>, <<"#", " ", "h">>, <<"-", " ", "a">>, <<"-", " ">>,
     <<"1", ".", " ", "b">>, <<BQ, BQ, BQ>>, <<"-", "-", "-">>}

AroundInit ==
    /\ content \in Docs(AroundPool, MaxAroundLines)
    /\ pass_input = content
    /\ original = content
    /\ config = default_config
    /\ pc = "blank-lines"
    /\ runs = 1
    /\ ol = ol_start
    /\ cfgfile = IdleConfigFile
    /\ cli = BlankLinesOnly
    /\ files = << >>
    /\ results = << >>
    /\ fixed_count = 0
    /\ cursor = 0

AroundSpec == AroundInit /\ [][BlankLinesPass]_vars

\* Line i starts a setext heading: a one-line paragraph (after a blank line
\* or at the start) that is followed by a line of only '=' or only '-'.
SetextHeadingAt(lines, i) ==
    /\ i < Len(lines)
    /\ ~InCodeBlock(lines, i)
    /\ ~IsBlank(lines[i]) /\ ~IsFenceLine(lines[i]) /\ ~IsHashLine(lines[i])
    /\ ~IsListItem(lines[i]) /\ ~IsUnderline(lines[i])
    /\ IsUnderline(lines[i + 1])
    /\ (i = 1 \/ IsBlank(lines[i - 1]))

\* Lines a..b of a document have a blank line before them and after them,
\* unless they start or end the document.
Separated(lines, a, b) ==
    /\ a > 1 => IsBlank(lines[a - 1])
    /\ b < Len(lines) => IsBlank(lines[b + 1])

\* The positions of the fence lines of a document, in order.
FenceSeq(lines) ==
    SelectSeq([i \in 1..Len(lines) |-> i], LAMBDA i : IsFenceLine(lines[i]))

\* C18: in the output of the blank-line pass every ATX heading, every setext
\* heading and every fenced block has a blank line before it and after it
\* unless it starts or ends the document, and no fenced block has more lines
\* than it had.
BlankAroundBlocks ==
    pc = "line-length" =>
        /\ \A i \in 1..Len(content) :
              /\ AtxHeadingAt(content, i) => Separated(content, i, i)
              /\ SetextHeadingAt(content, i) => Separated(content, i, i + 1)
        /\ LET fin == FenceSeq(pass_input)
               fout == FenceSeq(content)
           IN  /\ Len(fout) = Len(fin)
               /\ \A k \in 1..Len(fout) :
                     IF k % 2 = 1
                     THEN /\ fout[k] > 1 => IsBlank(content[fout[k] - 1])
                          /\ k < Len(fout) =>
                                fout[k + 1] - fout[k] <= fin[k + 1] - fin[k]
                     ELSE fout[k] < Len(content) => IsBlank(content[fout[k] + 1])

\* Line i is a list item outside code blocks.
ListItemAt(lines, i) ==
    /\ ~IsFenceLine(lines[i])
    /\ ~InCodeBlock(lines, i)
    /\ IsListItem(lines[i])

\* C19: in the output of the blank-line pass a list item outside code blocks
\* comes after a blank line or after another list item, never directly after
\* other content, and two consecutive list items of the input are still
\* consecutive lines of the output.
BlankBeforeListRun ==
    pc = "line-length" =>
        /\ \A i \in 2..Len(content) :
              ListItemAt(content, i) =>
                  IsBlank(content[i - 1]) \/ IsListItem(content[i - 1])
        /\ \A i \in 1..(Len(pass_input) - 1) :
              ListItemAt(pass_input, i) /\ ListItemAt(pass_input, i + 1) =>
                  \E k \in 1..(Len(content) - 1) :
                      /\ content[k] = pass_input[i]
                      /\ content[k + 1] = pass_input[i + 1]

----------------------------------------------------------------------------
(* LineWrapper run alone on documents with long lines of every kind.        *)

MaxExemptLines == 3

ExemptPool ==
    {<<"a", "a", ",", " ", "b", "b", " ", "c", "c">>,
     <<"#", " ", "a", "a", ",", " ", "b", "b", " ", "c", "c">>,
     <<"=", "=", "=">>,
     <<"-", "-", "-">>,
     <<BQ, BQ, BQ>>,
     <<"-", " ", "a", "a", ",", " ", "b", "b">>,
     <<>>,
     <<"x">>}

ExemptInit ==
    /\ content \in Docs(ExemptPool, MaxExemptLines)
    /\ pass_input = content
    /\ original = content
    /\ config \in {[default_config EXCEPT !.line_length = IntVal(n)] : n \in {4, 120}}
    /\ pc = "line-length"
    /\ runs = 1
    /\ ol = ol_start
    /\ cfgfile = IdleConfigFile
    /\ cli = LineLengthOnly
    /\ files = << >>
    /\ results = << >>
    /\ fixed_count = 0
    /\ cursor = 0

ExemptSpec == ExemptInit /\ [][LineLengthPass]_vars

\* Line i is one the wrapper has to leave alone: a fence line, a line inside
\* a code block, an ATX heading, or the text line or the underline of a
\* setext heading.
ExemptAt(lines, i) ==
    \/ IsFenceLine(lines[i])
    \/ InCodeBlock(lines, i)
    \/ AtxHeadingAt(lines, i)
    \/ SetextHeadingAt(lines, i)
    \/ (i > 1 /\ SetextHeadingAt(lines, i - 1))

ExemptLines(lines) ==
    LET idx == SelectSeq([i \in 1..Len(lines) |-> i], LAMBDA i : ExemptAt(lines, i))
    IN  [k \in 1..Len(idx) |-> lines[idx[k]]]

\* C20: every fence line, every line inside a code block and every heading
\* line (ATX, or the text or underline of a setext heading) is in the output
\* of the wrapper as it was, in the original order, whatever its length.
WrapExemptions ==
    pc = "done" => IsSubsequence(ExemptLines(pass_input), content)

----------------------------------------------------------------------------
(* Where LineWrapper splits a line (WrapSpec).                              *)

\* The line the wrapper was given last, and what it wrote for it.
WrapLine == pass_input[Len(pass_input)]

WrapOut == SubSeq(content, Len(pass_input), Len(content))

\* The 0-based positions in [from, limit) where a delimiter of BreakPoints
\* starts and ends at or before limit.
DelimiterStarts(line, from, limit) ==
    {k \in from..(limit - 1) :
        \E j \in 1..Len(BreakPoints) :
            MatchAt(line, BreakPoints[j], k) /\ k + Len(BreakPoints[j]) <= limit}

\* The first written line ends at the rightmost delimiter at or before the
\* limit: before it, or after its punctuation or word.
SplitAtRightmostDelimiter(line, out, limit) ==
    LET from == IF IsWrapListItem(line) THEN LeadingSpaces(line) + 2 ELSE 0
        starts == DelimiterStarts(line, from, limit)
        r == CHOOSE k \in starts : \A m \in starts : m <= k
        ends == {r} \cup {r + Len(BreakPoints[j]) - 1 :
                            j \in {i \in 1..Len(BreakPoints) : MatchAt(line, BreakPoints[i], r)}}
    IN  starts # {} => \E b \in ends : out[1] = rstrip(SliceTo(line, b))

HasLink(line) == contains(line, <<"]", "(", "h", "t", "t", "p">>)

\* C21: when the wrapper splits a line, the split is at the rightmost
\* delimiter lying at or before the length limit, and the first line written
\* is at most lineLength characters long.
BreakPointSelection ==
    (pc = "done" /\ content # pass_input) =>
        /\ Len(WrapOut[1]) <= config.line_length.n
        /\ ~HasLink(WrapLine) =>
              SplitAtRightmostDelimiter(WrapLine, WrapOut, config.line_length.n)

----------------------------------------------------------------------------
(* LineWrapper run alone on one indented line: list items of every marker,  *)
(* paragraph lines with and without a delimiter, a line with a link.        *)

MaxContinuationIndent == 2

ContinuationBodies ==
    {<<"-", " ", "a", "a", ",", " ", "b", "b">>,
     <<"*", " ", "a", "a", " ", "b", "b">>,
     <<"+", " ", "a", "a", ",", " ", "b", "b">>,
     <<"a", "a", ",", " ", "b", "b">>,
     <<"a", "a", " ", "b", "b">>,
     <<"c", " ", "[", "b", "]", "(", "h", "t", "t", "p", "x", ")">>,
     <<"a", "a", "a", "a", "a", "a", "a", "a">>,
     <<"-", " ", "a", " ", " ", " ", "b", "b", " ", "c">>,
     <<"(", "c", "[", "b", "]", "(", "h", "t", "t", "p", "x", ")", ")">>}

ContinuationLimits == 3..8

ContinuationInit ==
    /\ \E body \in ContinuationBodies, k \in 0..MaxContinuationIndent :
          content = <<Repeat(" ", k) \o body>>
    /\ \E n \in ContinuationLimits :
          config = [default_config EXCEPT !.line_length = IntVal(n)]
    /\ pass_input = content
    /\ original = content
    /\ pc = "line-length"
    /\ runs = 1
    /\ ol = ol_start
    /\ cfgfile = IdleConfigFile
    /\ cli = LineLengthOnly
    /\ files = << >>
    /\ results = << >>
    /\ fixed_count = 0
    /\ cursor = 0

ContinuationSpec == ContinuationInit /\ [][LineLengthPass]_vars

\* C22: when the wrapper splits a list item in two, the first line keeps the
\* indent and the marker and the second is indented by the indent plus the
\* marker and its space; when it splits any other line in two, the second
\* line has the leading spaces of the original line.
ContinuationIndent ==
    (pc = "done" /\ Len(content) = 2) =>
        LET line == pass_input[1]
            indent == LeadingSpaces(line)
        IN  IF IsUnorderedItem(line)
            THEN /\ SubSeq(content[1], 1, indent + 2) = SubSeq(line, 1, indent + 2)
                 /\ LeadingSpaces(content[2]) = indent + 2
            ELSE LeadingSpaces(content[2]) = indent

\* The first token of the line ends past the limit: no delimiter and no word
\* boundary lies at or before the limit.
FirstTokenPastLimit(line, limit) ==
    /\ split(line) # << >>
    /\ LeadingSpaces(line) + Len(split(line)[1]) > limit

\* C23: an over-length line whose first token alone reaches past the length
\* limit is written by the wrapper as one line identical to the input line.
DoNotMangle ==
    (/\ pc = "done"
     /\ Len(pass_input) = 1
     /\ ~IsHashLine(WrapLine)
     /\ ~IsFenceLine(WrapLine)
     /\ FirstTokenPastLimit(WrapLine, config.line_length.n))
        => content = pass_input

----------------------------------------------------------------------------
(* The lists fix run alone: the renumbering, then ListIndentNormalizer.     *)

MaxQuantizeLines == 3

MaxListIndent == 3

QuantizePool ==
    {<<"-", " ", "a">>,
     <<" ", "*", " ", "b">>,
     <<" ", " ", "+", " ", "c">>,
     <<" ", " ", " ", "-", " ", "d">>,
     <<" ", " ", " ", " ", " ", "-", " ", "e">>,
     <<"\t", "U+00A0", "\f", "-", " ", "f">>,
     <<" ", " ", "1", ".", " ", "g">>,
     <<" ", " ", "x">>,
     <<BQ, BQ, BQ>>,
     <<" ", " ", "-", "x">>,
     <<>>}

ListsOnly == [AllFixes EXCEPT !.fixes = {"lists"}]

QuantizeInit ==
    /\ content \in Docs(QuantizePool, MaxQuantizeLines)
    /\ pass_input = content
    /\ original = content
    /\ config \in {[default_config EXCEPT !.list_indent = IntVal(w)] : w \in 1..MaxListIndent}
    /\ pc = "renumber"
    /\ runs = 1
    /\ ol = ol_start
    /\ cfgfile = IdleConfigFile
    /\ cli = ListsOnly
    /\ files = << >>
    /\ results = << >>
    /\ fixed_count = 0
    /\ cursor = 0

QuantizeNext == RenumberPass \/ ListIndentPass

QuantizeSpec == QuantizeInit /\ [][QuantizeNext]_vars

\* Line i is an unordered list item outside code blocks.
UlItemAt(lines, i) ==
    /\ ~IsFenceLine(lines[i])
    /\ ~InCodeBlock(lines, i)
    /\ IsUnorderedItem(lines[i])

\* C24: the indent pass writes every unordered list item outside code blocks
\* that has n leading whitespace characters with floor(n / w) * w leading
\* spaces, marker and text as they were, writes every other line unchanged,
\* and applied to its own output gives that output again.
IndentQuantization ==
    pc = "headings" =>
        /\ Len(content) = Len(pass_input)
        /\ \A i \in 1..Len(pass_input) :
              LET line == pass_input[i]
                  n == LeadingSpaces(line)
                  w == config.list_indent.n
              IN  IF UlItemAt(pass_input, i)
                  THEN content[i] = Repeat(" ", (n \div w) * w) \o SubSeq(line, n + 1, Len(line))
                  ELSE content[i] = line
        /\ fix_list_indent_consistency(content, config.list_indent.n) = content

\* The pass has moved an item to a smaller indent that is not zero, has
\* replaced whitespace other than spaces, and has left an item inside a code
\* block alone.
QuantizedReached ==
    /\ pc = "headings"
    /\ \E i \in 1..Len(pass_input) :
          /\ UlItemAt(pass_input, i)
          /\ LeadingSpaces(content[i]) > 0
          /\ LeadingSpaces(content[i]) < LeadingSpaces(pass_input[i])
    /\ \E i \in 1..Len(pass_input) :
          /\ UlItemAt(pass_input, i)
          /\ \E j \in 1..LeadingSpaces(pass_input[i]) : pass_input[i][j] # " "
          /\ content[i] # pass_input[i]
    /\ \E i \in 1..Len(pass_input) :
          /\ InCodeBlock(pass_input, i)
          /\ IsUnorderedItem(pass_input[i])
          /\ LeadingSpaces(pass_input[i]) % config.list_indent.n # 0
          /\ content[i] = pass_input[i]

----------------------------------------------------------------------------
(* What the fence tagging does to the two fences of a well-formed block     *)
(* (FencedSpec).                                                            *)

\* C25: in a document with one well-formed fenced block the tagging pass
\* tags the opening fence when it is bare, writes the closing fence and every
\* other line unchanged, and leaves the fence lines where they were.
ClosingFenceStaysBare ==
    pc = "renumber" =>
        LET fp == FencePositions(pass_input)
            a == CHOOSE i \in fp : \A j \in fp : i <= j
            b == CHOOSE i \in fp : \A j \in fp : j <= i
        IN  /\ Len(content) = Len(pass_input)
            /\ FencePositions(content) = fp
            /\ IsBareFence(pass_input[a]) =>
                  (IsFenceLine(content[a]) /\ ~IsBareFence(content[a]))
            /\ content[b] = pass_input[b]
            /\ \A i \in 1..Len(pass_input) : i \notin fp => content[i] = pass_input[i]

\* The words of a document: the words of its lines, in order.
RECURSIVE WordsOf(_)
WordsOf(lines) ==
    IF lines = << >> THEN << >>
    ELSE split(Head(lines)) \o WordsOf(Tail(lines))

\* C26: the lines the wrapper writes for a line it splits hold, read in
\* order, exactly the words of that line.
WordsPreserved ==
    (pc = "done" /\ content # pass_input) => WordsOf(content) = WordsOf(pass_input)

----------------------------------------------------------------------------
(* Trailing whitespace after the full pipeline (Spec).                      *)

\* C27: when a run of the full pipeline is done, no line of its output ends
\* in a space or a tab.
NoTrailingWhitespace ==
    pc = "done" => \A i \in 1..Len(content) : rstrip(content[i]) = content[i]

====
